---- MODULE Spec2Model ----
(***************************************************************************)
(* Model of the skill sync engine of agent-manager: the bounded            *)
(* concurrency scheduler (utils.ts pLimit, sync.ts syncSkills), the retry  *)
(* policy (retry.ts) and the fetch / skip-decision pipeline.               *)
(***************************************************************************)
EXTENDS Integers, Sequences, FiniteSets, TLC

(***************************************************************************)
(* Bounds of the model.                                                    *)
(***************************************************************************)
MaxSkills == 7
MaxThrowing == 1
MaxRetriesBound == 3
MaxInitialBackoff == 2
MaxBackoffBound == 5
MaxMultiplier == 3
MaxRuns == 2
MaxLinkFailures == 1
MaxEdits == 1
MaxFailures == 1
MaxHashCalls == 2
MaxLinkCalls == 2

\* calls on the configuration file in one behaviour
MaxConfigCalls == 3

\* entries of the skills array a configuration file starts with
MaxStartSkills == 2

(***************************************************************************)
(* Program constants.                                                      *)
(***************************************************************************)
MAX_CONCURRENT_SYNCS == 5

\* constants.ts
METADATA_FILENAME == ".skill-metadata.json"
DEFAULT_GIT_REF == "main"

\* schemas.ts SkillTypeSchema
VALID_SKILL_TYPES == {"GIT_FILE", "GIT_FOLDER", "GIT_REPO", "GIST"}

\* timeoutMs of withRetryAndTimeout; 0 stands for plain withRetry
TimeoutValues == {0, 30000}

VARIABLES
  nSkills,      \* config.skills.length
  fetchThrows,  \* the skills whose fetcher.fetch rejects in this run
  mpc,          \* position of pLimit's body: "loop", "race", "all", "done"
  idx,          \* 1-based index of the item of the for..of loop
  executing,    \* pLimit's executing array (promises named by their item)
  results,      \* pLimit's results array
  task,         \* per item promise: "pending", "running", "settled"
  returned,     \* the value the promise of pLimit resolved with
  exitCode,     \* the exit status of the sync command, NotExited while it runs
  \* ---- retry.ts: one call of withRetry / withRetryAndTimeout
  rcfg,         \* finalConfig, and whether the call is withRetryAndTimeout
  rpc,          \* "idle", "test", "awaitOp", "sleep", "resolved", "rejected"
  attempt,      \* the loop variable attempt
  raised,       \* the errors the invocations of operation have raised, in order
  lastError,    \* the local lastError
  sleeps,       \* the delays passed to sleep, in order
  rejectedWith, \* the error withRetry rejected with
  pendingOps,   \* invocations of the wrapped operation that have not settled
  \* ---- sync.ts syncSingleSkill, fetchGitFolder: runs of one skill
  scfg,         \* the SkillConfig of the skill
  remoteTree,   \* the folder of the remote repository
  dryRun,       \* argument dryRun of the run
  force,        \* shouldForce of the run
  spc,          \* position of syncSingleSkill / fetchGitFolder
  content,      \* the content directory <skillsPath>/<skillName>
  tempDir,      \* the staging directory of the current or last fetchGitFolder
  fetchErr,     \* the error thrown inside the try block of fetchGitFolder
  fref,         \* the local ref of fetchGitFolder
  pendingHash,  \* the contentHash computed for saveMetadata
  links,        \* per agent, the entry <agent dir>/<skillName>
  runNo,        \* number of runs started
  lastResult,   \* the FetchResult of the last finished run
  fetchedInRun, \* whether the current or last run invoked fetcher.fetch
  synced,       \* the content directory and config at the last saveMetadata
  decision,     \* the SkipCheckResult of the current or last run, if computed
  intact,       \* whether the run started on the content directory as the last
                \* successful fetch had left it
  ops,          \* the I/O operations of the current or last run, with their outcome
  edits,        \* number of edits (content directory, configuration) since the last run
  failures,     \* number of I/O operations (fetcher, symlink creation) that have failed
  \* ---- metadata-manager.ts calculateContentHash: two directory trees
  treeA,        \* a directory
  treeB,        \* the directory after one change of its files
  change,       \* the change that made treeB of treeA
  listings,     \* the enumeration orders of the calls on treeA, in order
  digestsA,     \* the digests the calls on treeA returned, in order
  digestB,      \* the digest the last call on treeB returned
  \* ---- agent-manager: calls of the link and unlink operations of one skill
  skillDirExists, \* whether the content directory of the skill exists
  agentEntries,   \* per agent, the entry <agent dir>/<skillName>
  strayEntries,   \* the entries at paths outside the agent directories
  ensuredDirs,    \* the directories fs.ensureDir has been completed for
  lastCall,       \* the last call: operation, arguments, outcome
  linkCalls,      \* number of calls made
  \* ---- config: the configuration file and the calls that read and write it
  configFile,     \* the parsed content of the configuration file
  configCall,     \* the last call: operation, skill name, file before, outcome
  configCalls,    \* number of calls made
  loadableAtStart \* loadConfig accepted the file the calls started from

schedVars == <<nSkills, fetchThrows, mpc, idx, executing, results, task, returned,
               exitCode>>

retryVars == <<rcfg, rpc, attempt, raised, lastError, sleeps, rejectedWith, pendingOps>>

syncVars == <<scfg, remoteTree, dryRun, force, spc, content, tempDir, fetchErr, fref,
              pendingHash, links, runNo, lastResult, fetchedInRun, synced, decision,
              intact, ops, edits, failures>>

hashVars == <<treeA, treeB, change, listings, digestsA, digestB>>

linkVars == <<skillDirExists, agentEntries, strayEntries, ensuredDirs, lastCall, linkCalls>>

configVars == <<configFile, configCall, configCalls, loadableAtStart>>

vars == <<schedVars, retryVars, syncVars, hashVars, linkVars, configVars>>

NotReturned == <<"not returned">>

NotExited == -1

\* an empty remote URL
NoRemote == [platform |-> "", parts |-> <<>>]

NoError == [id |-> -1, msg |-> "", class |-> "none", isError |-> FALSE]

(***************************************************************************)
(* syncSingleSkill as seen by the scheduler: the FetchResult it resolves   *)
(* with.  A rejected fetch is caught and converted (sync.ts 100-108); the  *)
(* message of a fetcher error is never empty.                              *)
(***************************************************************************)
syncSingleSkill(i) ==
  IF i \in fetchThrows
    THEN [skillName |-> i, success |-> FALSE, error |-> "Failed to fetch"]
    ELSE [skillName |-> i, success |-> TRUE, error |-> ""]

\* executing.findIndex((p) => p === promise): 0-based index or -1
findIndex(arr, p) ==
  IF \E k \in 1..Len(arr) : arr[k] = p
    THEN (CHOOSE k \in 1..Len(arr) : arr[k] = p /\ \A j \in 1..(k-1) : arr[j] # p) - 1
    ELSE -1

\* arr.splice(start, 1) for a 0-based start; a negative start counts from the end
splice1(arr, start) ==
  LET s0 == IF start < 0 THEN (IF Len(arr) + start < 0 THEN 0 ELSE Len(arr) + start)
            ELSE (IF start > Len(arr) THEN Len(arr) ELSE start)
  IN [k \in 1..(IF s0 < Len(arr) THEN Len(arr) - 1 ELSE Len(arr)) |->
        IF k <= s0 THEN arr[k] ELSE arr[k+1]]

\* no syncSkills run in progress
SchedIdle ==
  /\ nSkills = 0
  /\ fetchThrows = {}
  /\ mpc = "idle"
  /\ idx = 0
  /\ executing = <<>>
  /\ results = <<>>
  /\ task = <<>>
  /\ returned = NotReturned
  /\ exitCode = NotExited

\* no withRetry call in progress
RetryIdle ==
  /\ rcfg = <<>>
  /\ rpc = "idle"
  /\ attempt = 0
  /\ raised = <<>>
  /\ lastError = NoError
  /\ sleeps = <<>>
  /\ rejectedWith = NoError
  /\ pendingOps = {}

\* a directory: whether it exists and the regular files below it
NoDir == [exists |-> FALSE, files |-> <<>>]
EmptyDir == [exists |-> TRUE, files |-> <<>>]

NoResult == [skillName |-> ""]
NoDecision == [shouldSkip |-> FALSE, needsInteraction |-> FALSE, reason |-> ""]
NeverSynced == [valid |-> FALSE, files |-> <<>>, cfg |-> <<>>]

\* no sync of the skill in progress and nothing on disk
SyncIdle ==
  /\ scfg = <<>>
  /\ remoteTree = NoDir
  /\ dryRun = FALSE
  /\ force = FALSE
  /\ spc = "off"
  /\ content = NoDir
  /\ tempDir = NoDir
  /\ fetchErr = ""
  /\ fref = ""
  /\ pendingHash = ""
  /\ links = <<>>
  /\ runNo = 0
  /\ lastResult = NoResult
  /\ fetchedInRun = FALSE
  /\ synced = NeverSynced
  /\ decision = NoDecision
  /\ intact = FALSE
  /\ ops = <<>>
  /\ edits = 0
  /\ failures = 0

NoChange == [op |-> "off", path |-> <<>>, to |-> <<>>]

\* no tree under examination
HashIdle ==
  /\ treeA = NoDir
  /\ treeB = NoDir
  /\ change = NoChange
  /\ listings = <<>>
  /\ digestsA = <<>>
  /\ digestB = ""

NoCall == [op |-> "none", agents |-> {}, target |-> <<>>, faulty |-> FALSE, thrown |-> FALSE]

\* no link or unlink call under examination
LinkIdle ==
  /\ skillDirExists = FALSE
  /\ agentEntries = <<>>
  /\ strayEntries = <<>>
  /\ ensuredDirs = {}
  /\ lastCall = [NoCall EXCEPT !.op = "off"]
  /\ linkCalls = 0

NoConfigFile == [exists |-> FALSE, skillsPath |-> "", hasSkills |-> FALSE, skills |-> <<>>]

NoConfigCall ==
  [op |-> "none", name |-> "", before |-> NoConfigFile, thrown |-> "", wrote |-> FALSE]

ConfigIdle ==
  /\ configFile = NoConfigFile
  /\ configCall = [NoConfigCall EXCEPT !.op = "off"]
  /\ configCalls = 0
  /\ loadableAtStart = FALSE

\* the position after the current item of the for..of loop
nextItem ==
  /\ idx' = idx + 1
  /\ mpc' = IF idx + 1 > nSkills THEN "all" ELSE "loop"

SchedStart ==
  /\ nSkills \in 1..MaxSkills
  /\ fetchThrows \in {s \in SUBSET (1..nSkills) : Cardinality(s) <= MaxThrowing}
  /\ mpc = "loop"
  /\ idx = 1
  /\ executing = <<>>
  /\ results = <<>>
  /\ task = [i \in 1..nSkills |-> "pending"]
  /\ returned = NotReturned
  /\ exitCode = NotExited

(***************************************************************************)
(* One iteration of the for..of loop of pLimit up to its await: the        *)
(* promise of the item is created (its callback, and so fn(item), starts   *)
(* in the next microtask, before anything else runs) and pushed.           *)
(***************************************************************************)
pLimitPush ==
  /\ mpc = "loop"
  /\ idx <= nSkills
  /\ task' = [task EXCEPT ![idx] = "running"]
  /\ executing' = Append(executing, idx)
  /\ IF Len(executing') >= MAX_CONCURRENT_SYNCS
       THEN mpc' = "race" /\ idx' = idx
       ELSE nextItem
  /\ UNCHANGED <<nSkills, fetchThrows, results, returned, exitCode>>
  /\ UNCHANGED <<retryVars, syncVars, hashVars, linkVars, configVars>>

(***************************************************************************)
(* await Promise.race(executing) resumes once some promise of executing    *)
(* is settled; then the promise of the current item is spliced out.        *)
(***************************************************************************)
pLimitRaceResume ==
  /\ mpc = "race"
  /\ \E k \in 1..Len(executing) : task[executing[k]] = "settled"
  /\ executing' = splice1(executing, findIndex(executing, idx))
  /\ nextItem
  /\ UNCHANGED <<nSkills, fetchThrows, results, task, returned, exitCode>>
  /\ UNCHANGED <<retryVars, syncVars, hashVars, linkVars, configVars>>

(***************************************************************************)
(* await Promise.all(executing); return results                            *)
(***************************************************************************)
pLimitReturn ==
  /\ mpc = "all"
  /\ \A k \in 1..Len(executing) : task[executing[k]] = "settled"
  /\ mpc' = "done"
  /\ returned' = results
  /\ UNCHANGED <<nSkills, fetchThrows, idx, executing, results, task, exitCode>>
  /\ UNCHANGED <<retryVars, syncVars, hashVars, linkVars, configVars>>

(***************************************************************************)
(* fn(item) resolves and the callback pushes its result.  This happens     *)
(* only while the body of pLimit is suspended at an await, or after it     *)
(* returned.                                                               *)
(***************************************************************************)
taskSettle(i) ==
  /\ mpc \in {"race", "all", "done"}
  /\ exitCode = NotExited
  /\ task[i] = "running"
  /\ task' = [task EXCEPT ![i] = "settled"]
  /\ results' = Append(results, syncSingleSkill(i))
  /\ UNCHANGED <<nSkills, fetchThrows, mpc, idx, executing, returned, exitCode>>
  /\ UNCHANGED <<retryVars, syncVars, hashVars, linkVars, configVars>>

(***************************************************************************)
(* The action of the sync command once syncSkills has resolved: the        *)
(* summary is printed and results.some((r) => !r.success) decides on       *)
(* process.exit(1), which ends the process with the syncs still in flight; *)
(* without a failure in the list the process ends with status 0 when       *)
(* nothing is pending any more.                                            *)
(***************************************************************************)
syncCommandExit ==
  /\ mpc = "done"
  /\ exitCode = NotExited
  /\ LET hasFailures == \E k \in 1..Len(returned) : ~returned[k].success IN
       IF hasFailures
         THEN exitCode' = 1
         ELSE /\ \A i \in 1..nSkills : task[i] = "settled"
              /\ exitCode' = 0
  /\ UNCHANGED <<nSkills, fetchThrows, mpc, idx, executing, results, task, returned>>
  /\ UNCHANGED <<retryVars, syncVars, hashVars, linkVars, configVars>>

NextSched ==
  \/ pLimitPush
  \/ pLimitRaceResume
  \/ pLimitReturn
  \/ \E i \in 1..nSkills : taskSettle(i)
  \/ syncCommandExit

InitSched == SchedStart /\ RetryIdle /\ SyncIdle /\ HashIdle /\ LinkIdle /\ ConfigIdle

SpecSched == InitSched /\ [][NextSched]_vars

inFlight == {i \in 1..nSkills : task[i] = "running"}

(***************************************************************************)
(* Claims about the scheduler.                                             *)
(***************************************************************************)

\* C1: when syncSkills resolves, the i-th element of the returned list is the
\* result of the i-th configured skill (configuration order, not completion
\* order).
C1_ResultOrderIsConfigOrder ==
  mpc = "done" =>
    \A k \in 1..Len(returned) : returned[k].skillName = k

\* C2: when syncSkills resolves, the returned list holds exactly one
\* FetchResult per configured skill and no skill sync is still in flight.
C2_ExactlyOneResultPerSkill ==
  mpc = "done" =>
    /\ Len(returned) = nSkills
    /\ \A i \in 1..nSkills :
         Cardinality({k \in 1..Len(returned) : returned[k].skillName = i}) = 1
    /\ inFlight = {}

\* C3: at most MAX_CONCURRENT_SYNCS skill syncs are started and not yet
\* settled, in every state of a run.
C3_InFlightAtMostLimit ==
  Cardinality(inFlight) <= MAX_CONCURRENT_SYNCS

\* C4: batch isolation: when the fetch of some skill throws, syncSkills
\* still resolves with, for every skill, one result carrying the outcome the
\* skill has alone: success=false and a non-empty error for a skill whose
\* fetch throws, success=true for every other skill; no skill is left
\* unfinished.
C4_BatchIsolation ==
  (mpc = "done" /\ fetchThrows # {}) =>
    /\ \A i \in 1..nSkills :
         \E k \in 1..Len(returned) :
           /\ returned[k].skillName = i
           /\ returned[k].success = (i \notin fetchThrows)
           /\ (returned[k].success = FALSE => returned[k].error # "")
    /\ \A i \in 1..nSkills : task[i] = "settled"

(***************************************************************************)
(* Retry policy (retry.ts).                                                *)
(***************************************************************************)

\* message.includes(pat)
includes(msg, pat) ==
  \E k \in 1..(Len(msg) - Len(pat) + 1) : SubSeq(msg, k, k + Len(pat) - 1) = pat

\* DEFAULT_RETRY_CONFIG.isRetryable
defaultIsRetryable(error) ==
  LET message == error.msg IN
    \/ includes(message, "ECONNRESET")
    \/ includes(message, "ETIMEDOUT")
    \/ includes(message, "EHOSTUNREACH")
    \/ includes(message, "ECONNREFUSED")
    \/ includes(message, "socket hang up")
    \/ includes(message, "429")
    \/ includes(message, "503")
    \/ includes(message, "502")
    \/ includes(message, "504")

\* finalConfig.isRetryable: the default classifier or one supplied by the caller
isRetryable(cfg, error) ==
  CASE cfg.isRetryable = "default" -> defaultIsRetryable(error)
    [] cfg.isRetryable = "always" -> TRUE
    [] cfg.isRetryable = "never" -> FALSE

RECURSIVE pow(_, _)
pow(b, e) == IF e <= 0 THEN 1 ELSE b * pow(b, e - 1)

min(a, b) == IF a < b THEN a ELSE b

\* mutant: the exponent is the attempt number instead of attempt - 1
calculateBackoff_ExponentOffByOne(n, cfg) ==
  LET exponentialDelay == cfg.initialBackoff * pow(cfg.backoffMultiplier, n)
  IN min(exponentialDelay, cfg.maxBackoff)

calculateBackoff(n, cfg) ==
  LET exponentialDelay == cfg.initialBackoff * pow(cfg.backoffMultiplier, n - 1)
  IN min(exponentialDelay, cfg.maxBackoff)

\* the rejection of withTimeout's timer
timeoutError(id, timeoutMs) ==
  [id |-> id, msg |-> "Operation timeout after " \o ToString(timeoutMs) \o "ms",
   class |-> "timeout", isError |-> TRUE]

\* what an invocation of the wrapped operation can throw: message, the class
\* the message stands for, and whether the thrown value is an Error object
OpErrors ==
  { [msg |-> "read ECONNRESET", class |-> "network", isError |-> TRUE],
    [msg |-> "socket hang up", class |-> "network", isError |-> FALSE],
    [msg |-> "Request failed with status code 503", class |-> "http5xx", isError |-> TRUE],
    [msg |-> "Request failed with status code 404", class |-> "http4xx", isError |-> TRUE],
    [msg |-> "Authentication failed", class |-> "auth", isError |-> TRUE],
    [msg |-> "Invalid Git URL", class |-> "validation", isError |-> TRUE] }

RetryConfigs ==
  [maxRetries : 0..MaxRetriesBound,
   initialBackoff : 1..MaxInitialBackoff,
   maxBackoff : 1..MaxBackoffBound,
   backoffMultiplier : 1..MaxMultiplier,
   isRetryable : {"default", "always", "never"},
   timeoutMs : TimeoutValues]

\* a call withRetry(operation, name, config) (timeoutMs = 0) or
\* withRetryAndTimeout(operation, name, config, timeoutMs)
RetryStart ==
  /\ rcfg \in RetryConfigs
  /\ rpc = "test"
  /\ attempt = 1
  /\ raised = <<>>
  /\ lastError = NoError
  /\ sleeps = <<>>
  /\ rejectedWith = NoError
  /\ pendingOps = {}

\* the invocation withRetry is awaiting, numbered from 1
currentOp == Len(raised) + 1

\* number of invocations of operation so far
invocations == Len(raised) + (IF rpc \in {"awaitOp", "resolved"} THEN 1 ELSE 0)

\* mutant: the loop test is attempt < maxRetries
retryAttempt_LoopOffByOne ==
  /\ rpc = "test"
  /\ IF attempt < rcfg.maxRetries
       THEN /\ rpc' = "awaitOp"
            /\ pendingOps' = pendingOps \cup {currentOp}
            /\ UNCHANGED rejectedWith
       ELSE /\ rpc' = "rejected"
            /\ rejectedWith' =
                 IF lastError # NoError THEN lastError
                 ELSE [id |-> 0, msg |-> "operation failed after retries",
                       class |-> "exhausted", isError |-> TRUE]
            /\ UNCHANGED pendingOps
  /\ UNCHANGED <<rcfg, attempt, raised, lastError, sleeps>>
  /\ UNCHANGED <<schedVars, syncVars, hashVars, linkVars, configVars>>

\* loop test of the for; then operation() is invoked, or the loop is left
retryAttempt ==
  /\ rpc = "test"
  /\ IF attempt <= rcfg.maxRetries
       THEN /\ rpc' = "awaitOp"
            /\ pendingOps' = pendingOps \cup {currentOp}
            /\ UNCHANGED rejectedWith
       ELSE /\ rpc' = "rejected"
            /\ rejectedWith' =
                 IF lastError # NoError THEN lastError
                 ELSE [id |-> 0, msg |-> "operation failed after retries",
                       class |-> "exhausted", isError |-> TRUE]
            /\ UNCHANGED pendingOps
  /\ UNCHANGED <<rcfg, attempt, raised, lastError, sleeps>>
  /\ UNCHANGED <<schedVars, syncVars, hashVars, linkVars, configVars>>

\* return await operation()
opResolves ==
  /\ rpc = "awaitOp"
  /\ rpc' = "resolved"
  /\ pendingOps' = pendingOps \ {currentOp}
  /\ UNCHANGED <<rcfg, attempt, raised, lastError, sleeps, rejectedWith>>
  /\ UNCHANGED <<schedVars, syncVars, hashVars, linkVars, configVars>>

\* mutant: the classifier is not consulted
catchBlock_IgnoresClassifier(error) ==
  /\ raised' = Append(raised, error)
  /\ lastError' = IF error.isError THEN error
                  ELSE [error EXCEPT !.id = 0, !.isError = TRUE]
  /\ IF attempt >= rcfg.maxRetries
       THEN /\ rpc' = "rejected"
            /\ rejectedWith' = error
            /\ UNCHANGED sleeps
       ELSE /\ rpc' = "sleep"
            /\ sleeps' = Append(sleeps, calculateBackoff(attempt, rcfg))
            /\ UNCHANGED rejectedWith
  /\ UNCHANGED <<rcfg, attempt>>

\* the catch block of withRetry for the thrown value error
catchBlock(error) ==
  /\ raised' = Append(raised, error)
  /\ lastError' = IF error.isError THEN error
                  ELSE [error EXCEPT !.id = 0, !.isError = TRUE]
  /\ IF attempt >= rcfg.maxRetries \/ ~isRetryable(rcfg, lastError')
       THEN /\ rpc' = "rejected"
            /\ rejectedWith' = error
            /\ UNCHANGED sleeps
       ELSE /\ rpc' = "sleep"
            /\ sleeps' = Append(sleeps, calculateBackoff(attempt, rcfg))
            /\ UNCHANGED rejectedWith
  /\ UNCHANGED <<rcfg, attempt>>

\* the awaited invocation rejects
opRejects(e) ==
  /\ rpc = "awaitOp"
  /\ pendingOps' = pendingOps \ {currentOp}
  /\ catchBlock([id |-> currentOp, msg |-> e.msg, class |-> e.class, isError |-> e.isError])
  /\ UNCHANGED <<schedVars, syncVars, hashVars, linkVars, configVars>>

\* mutant: withTimeout sets no timer
timeoutFires_NoTimer ==
  /\ rpc = "awaitOp"
  /\ rcfg.timeoutMs > 0
  /\ FALSE
  /\ UNCHANGED vars

\* withTimeout: the timer wins the race; the wrapped operation keeps running
timeoutFires ==
  /\ rpc = "awaitOp"
  /\ rcfg.timeoutMs > 0
  /\ catchBlock(timeoutError(currentOp, rcfg.timeoutMs))
  /\ UNCHANGED pendingOps
  /\ UNCHANGED <<schedVars, syncVars, hashVars, linkVars, configVars>>

\* await sleep(backoffMs) is over; attempt++
sleepDone ==
  /\ rpc = "sleep"
  /\ attempt' = attempt + 1
  /\ rpc' = "test"
  /\ UNCHANGED <<rcfg, raised, lastError, sleeps, rejectedWith, pendingOps>>
  /\ UNCHANGED <<schedVars, syncVars, hashVars, linkVars, configVars>>

\* an operation abandoned by a timeout settles; nobody awaits it
abandonedOpSettles(c) ==
  /\ c \in pendingOps
  /\ ~(rpc = "awaitOp" /\ c = currentOp)
  /\ pendingOps' = pendingOps \ {c}
  /\ UNCHANGED <<rcfg, rpc, attempt, raised, lastError, sleeps, rejectedWith>>
  /\ UNCHANGED <<schedVars, syncVars, hashVars, linkVars, configVars>>

NextRetry ==
  \/ retryAttempt
  \/ opResolves
  \/ \E e \in OpErrors : opRejects(e)
  \/ timeoutFires
  \/ sleepDone
  \/ \E c \in 1..(MaxRetriesBound + 1) : abandonedOpSettles(c)

InitRetry == RetryStart /\ SchedIdle /\ SyncIdle /\ HashIdle /\ LinkIdle /\ ConfigIdle

SpecRetry == InitRetry /\ [][NextRetry]_vars

\* The event loop runs every continuation that is ready and fires every timer
\* that is set: the loop test, the timer of withTimeout, the timer of sleep.
\* Nothing makes the wrapped operation settle.
SpecRetryFair ==
  /\ SpecRetry
  /\ WF_vars(retryAttempt)
  /\ WF_vars(timeoutFires)
  /\ WF_vars(sleepDone)

(***************************************************************************)
(* Claims about the retry policy.                                          *)
(***************************************************************************)

settled == rpc \in {"resolved", "rejected"}

\* C5: retry exhaustion: for maxRetries >= 1, when every invocation failed
\* with an error the classifier accepts as retryable and withRetry has
\* rejected, the operation was invoked exactly maxRetries times and the
\* rejection is the very error object raised by the last invocation; such a
\* run never invokes the operation more than maxRetries times.
C5_RetryExhaustion ==
  (rpc # "idle" /\ rcfg.maxRetries >= 1
     /\ \A k \in 1..Len(raised) : isRetryable(rcfg, raised[k])) =>
    /\ invocations <= rcfg.maxRetries
    /\ rpc = "rejected" =>
         /\ invocations = rcfg.maxRetries
         /\ rejectedWith = raised[Len(raised)]
         /\ rejectedWith.id = rcfg.maxRetries

C5_Witness ==
  /\ rpc = "rejected"
  /\ rcfg.maxRetries = 3
  /\ rcfg.isRetryable = "default"
  /\ Len(raised) = 3
  /\ \A k \in 1..3 : isRetryable(rcfg, raised[k])
  /\ rejectedWith = raised[3]

\* C6: an invocation that fails with an error the classifier rejects is the
\* last invocation: withRetry has rejected with that very error, no sleep
\* followed it and no further invocation happened.
C6_NonRetryableStops ==
  rpc # "idle" =>
    \A k \in 1..Len(raised) :
      ~isRetryable(rcfg, raised[k]) =>
        /\ k = Len(raised)
        /\ rpc = "rejected"
        /\ rejectedWith = raised[k]
        /\ rejectedWith.id = k
        /\ invocations = k
        /\ Len(sleeps) = k - 1

C6_Witness ==
  /\ rpc = "rejected"
  /\ rcfg.maxRetries = 3
  /\ rcfg.isRetryable = "default"
  /\ Len(raised) = 1
  /\ raised[1].class = "validation"
  /\ rejectedWith = raised[1]
  /\ sleeps = <<>>

\* C7: the n-th delay withRetry sleeps equals
\* min(initialBackoff * backoffMultiplier^(n-1), maxBackoff), never exceeds
\* maxBackoff, follows failed attempt n < maxRetries, and there is exactly
\* one sleep between two consecutive attempts: attempts-1 sleeps once the
\* call has settled, none after the final failed attempt.
C7_BackoffDelays ==
  rpc # "idle" =>
    /\ \A n \in 1..Len(sleeps) :
         /\ LET d == rcfg.initialBackoff * (rcfg.backoffMultiplier ^ (n - 1))
            IN sleeps[n] = IF d < rcfg.maxBackoff THEN d ELSE rcfg.maxBackoff
         /\ sleeps[n] <= rcfg.maxBackoff
         /\ n < rcfg.maxRetries
    /\ rpc \in {"awaitOp", "resolved"} => Len(sleeps) = invocations - 1
    /\ (rpc = "rejected" /\ invocations >= 1) => Len(sleeps) = invocations - 1
    /\ rpc = "sleep" => Len(sleeps) = invocations
    /\ Len(sleeps) <= Len(raised)

C7_Witness ==
  /\ rpc = "rejected"
  /\ Len(raised) = 3
  /\ Len(sleeps) = 2
  /\ sleeps[1] < sleeps[2]
  /\ sleeps[2] = rcfg.maxBackoff
  /\ rcfg.initialBackoff * rcfg.backoffMultiplier > rcfg.maxBackoff

\* C8: with the default classification, an attempt of withRetryAndTimeout cut
\* off by the deadline of withTimeout is followed by another attempt while
\* fewer than maxRetries attempts were made, and validation errors,
\* authentication failures and other 4xx failures are never retried.
C8_TimeoutIsRetried ==
  (rpc # "idle" /\ rcfg.isRetryable = "default") =>
    /\ \A k \in 1..Len(raised) :
         (raised[k].class = "timeout" /\ k < rcfg.maxRetries) =>
           ~(rpc = "rejected" /\ k = Len(raised))
    /\ \A k \in 1..Len(raised) :
         raised[k].class \in {"validation", "auth", "http4xx"} =>
           (rpc = "rejected" /\ k = Len(raised))

(***************************************************************************)
(* The pipeline of one skill: skip decision, fetch (git folder fetcher),   *)
(* metadata store, content hasher and symlink fan-out.  The file system is *)
(* the content directory of the skill, the staging directory and the       *)
(* entry named after the skill in every agent directory.                   *)
(***************************************************************************)

\* file paths relative to a directory, as sequences of path segments
P_HIDDEN == <<".cache", "notes.md">>
P_HIDDEN2 == <<".cache", "tmp.md">>
P_META == <<METADATA_FILENAME>>
P_README == <<"README.md">>
P_SKILL == <<"SKILL.md">>
P_DOCMETA == <<"docs", METADATA_FILENAME>>
P_DOC == <<"docs", "guide.md">>

\* the paths above in the order of Array.prototype.sort on the path strings
\* (UTF-16 code units: "." 46 < "/" 47 < "R" 82 < "S" 83 < "c" 99 < "d" 100
\* < "g" 103 < "n" 110 < "s" 115 < "t" 116)
sortedPaths == <<P_HIDDEN, P_HIDDEN2, P_META, P_README, P_SKILL, P_DOCMETA, P_DOC>>

ContentPaths == {P_HIDDEN, P_SKILL, P_DOC}

Bytes == {"v1", "v2"}

\* path.join / path.relative of the segments
RECURSIVE joinPath(_)
joinPath(p) == IF Len(p) = 1 THEN p[1] ELSE p[1] \o "/" \o joinPath(Tail(p))

\* names of the entries fs.readdir(dir) returns, dir given relative to the root
readdir(files, dir) ==
  {q[Len(dir) + 1] : q \in {r \in DOMAIN files :
      Len(r) > Len(dir) /\ SubSeq(r, 1, Len(dir)) = dir}}

\* entry.isDirectory()
isDirectory(files, dir, name) ==
  \E r \in DOMAIN files :
    Len(r) > Len(dir) + 1 /\ SubSeq(r, 1, Len(dir) + 1) = Append(dir, name)

\* mutant: subdirectories are not entered
getAllFiles_NoRecursion(files, dir, denied) ==
  IF dir \in denied THEN {}
  ELSE UNION { IF isDirectory(files, dir, name) THEN {} ELSE {Append(dir, name)}
               : name \in readdir(files, dir) }

\* getAllFiles: the regular files below dir; dot-prefixed directories are
\* not entered; when fs.readdir throws (dir is in denied) the catch block
\* logs the error and the empty array is returned
RECURSIVE getAllFiles(_, _, _)
getAllFiles(files, dir, denied) ==
  IF dir \in denied THEN {}
  ELSE UNION { IF isDirectory(files, dir, name)
                 THEN (IF SubSeq(name, 1, 1) = "." THEN {}
                       ELSE getAllFiles(files, Append(dir, name), denied))
                 ELSE {Append(dir, name)}
               : name \in readdir(files, dir) }

\* the array getAllFiles(skillDir) returns when the filesystem enumerates the
\* entries in the given order
getAllFilesListed(files, denied, order) ==
  SelectSeq(order, LAMBDA q : q \in getAllFiles(files, <<>>, denied))

\* mutant: the array is left in the order of enumeration
sortFiles_NotSorted(arr) == arr

\* files.sort()
sortFiles(arr) == SelectSeq(sortedPaths, LAMBDA q : \E k \in DOMAIN arr : arr[k] = q)

\* crypto sha256 hex digest of a string, taken as collision free
sha256(input) == "sha256(" \o input \o ")"

\* hashFile: digest of the bytes of one file; the bytes of a metadata file
\* that holds a record are the JSON text of the record
hashFile(file) ==
  sha256(IF "bytes" \in DOMAIN file THEN file.bytes
         ELSE "{lastSync:" \o file.lastSync \o ",contentHash:" \o file.contentHash \o "}")

\* mutant: the metadata file is hashed like any other file
RECURSIVE hashUpdates_WithMetadata(_, _)
hashUpdates_WithMetadata(files, seq) ==
  IF seq = <<>> THEN ""
  ELSE LET file == Head(seq)
           relativePath == joinPath(file)
       IN (relativePath \o hashFile(files[file]))
          \o hashUpdates_WithMetadata(files, Tail(seq))

\* mutant: only the file hashes are fed to the hash, not the paths
RECURSIVE hashUpdates_WithoutPaths(_, _)
hashUpdates_WithoutPaths(files, seq) ==
  IF seq = <<>> THEN ""
  ELSE LET file == Head(seq)
           relativePath == joinPath(file)
       IN (IF relativePath = METADATA_FILENAME THEN ""
           ELSE hashFile(files[file]))
          \o hashUpdates_WithoutPaths(files, Tail(seq))

\* the string fed to the top-level hash by the loop of calculateContentHash
RECURSIVE hashUpdates(_, _)
hashUpdates(files, seq) ==
  IF seq = <<>> THEN ""
  ELSE LET file == Head(seq)
           relativePath == joinPath(file)
       IN (IF relativePath = METADATA_FILENAME THEN ""
           ELSE relativePath \o hashFile(files[file]))
          \o hashUpdates(files, Tail(seq))

\* calculateContentHash(skillDir) when no file read fails; denied are the
\* directories whose listing fails, order is the order of enumeration
calculateContentHashListed(dir, denied, order) ==
  sha256(hashUpdates(dir.files, sortFiles(getAllFilesListed(dir.files, denied, order))))

\* calculateContentHash(skillDir) on a filesystem that enumerates by name
calculateContentHash(dir, denied) == calculateContentHashListed(dir, denied, sortedPaths)

\* loadMetadata returns null
NoMetadata == [absent |-> TRUE]

\* a statement of a try block throws
Thrown == [thrown |-> TRUE]

\* the JSON texts null and 42
JsonNull == [bytes |-> "null"]
JsonNumber == [bytes |-> "42"]

\* fs.readFile(metadataPath, 'utf-8'): the text of the file; a file that
\* holds a JSON object is kept as the record of its members
readFile(file) == IF "unreadable" \in DOMAIN file THEN Thrown ELSE file

\* JSON.parse(content)
JSONparse(text) ==
  IF "bytes" \notin DOMAIN text THEN text
  ELSE IF text \in {JsonNull, JsonNumber} THEN text
  ELSE Thrown

\* !metadata[name] for a JSON object: the member is absent or empty
falsy(metadata, name) ==
  \/ name \notin DOMAIN metadata
  \/ metadata[name] = (IF name = "remote" THEN NoRemote ELSE "")

\* mutant: lastSync is not among the required fields
loadMetadata_LastSyncNotRequired(dir) ==
  IF ~dir.exists \/ P_META \notin DOMAIN dir.files THEN NoMetadata
  ELSE LET text == readFile(dir.files[P_META]) IN
    IF text = Thrown THEN NoMetadata
    ELSE LET metadata == JSONparse(text) IN
      IF metadata = Thrown THEN NoMetadata
      ELSE IF metadata = JsonNull THEN NoMetadata
      ELSE IF "bytes" \in DOMAIN metadata THEN NoMetadata
      ELSE IF \/ falsy(metadata, "remote")
              \/ falsy(metadata, "type")
              \/ falsy(metadata, "contentHash")
        THEN NoMetadata
        ELSE metadata

\* loadMetadata(skillDir): null when the file is missing; a failing
\* readFile or JSON.parse, and the member access on the value null, throw
\* inside the try block and the catch block returns null; on a number every
\* member is undefined
loadMetadata(dir) ==
  IF ~dir.exists \/ P_META \notin DOMAIN dir.files THEN NoMetadata
  ELSE LET text == readFile(dir.files[P_META]) IN
    IF text = Thrown THEN NoMetadata
    ELSE LET metadata == JSONparse(text) IN
      IF metadata = Thrown THEN NoMetadata
      ELSE IF metadata = JsonNull THEN NoMetadata
      ELSE IF "bytes" \in DOMAIN metadata THEN NoMetadata
      ELSE IF \/ falsy(metadata, "remote")
              \/ falsy(metadata, "type")
              \/ falsy(metadata, "lastSync")
              \/ falsy(metadata, "contentHash")
        THEN NoMetadata
        ELSE metadata

\* saveMetadata(skillDir, metadata): fs.writeFile of the record
saveMetadata(dir, metadata) ==
  [dir EXCEPT !.files =
     [q \in DOMAIN dir.files \cup {P_META} |->
        IF q = P_META THEN metadata ELSE dir.files[q]]]

\* mutant: the ref of the configuration is not looked at
resolveRef_IgnoresConfigRef(configRef, urlRef) ==
  IF urlRef # "" THEN urlRef
  ELSE DEFAULT_GIT_REF

\* resolveRef(configRef, urlRef); "" stands for undefined
resolveRef(configRef, urlRef) ==
  IF configRef # "" THEN configRef
  ELSE IF urlRef # "" THEN urlRef
  ELSE DEFAULT_GIT_REF

\* parseGitUrl(url, 'GIT_FOLDER') on the path parts of a valid URL
parseGitUrl(remote) ==
  LET pathParts == remote.parts IN
    [owner |-> pathParts[1],
     repo |-> pathParts[2],
     ref |-> IF remote.platform = "github" /\ Len(pathParts) > 4 /\ pathParts[3] = "tree"
               THEN pathParts[4] ELSE "",
     path |-> IF remote.platform = "github" /\ Len(pathParts) > 4 /\ pathParts[3] = "tree"
                THEN SubSeq(pathParts, 5, Len(pathParts))
              ELSE IF Len(pathParts) > 2 THEN SubSeq(pathParts, 3, Len(pathParts))
              ELSE <<>>]

HexChars == {"0", "1", "2", "3", "4", "5", "6", "7", "8", "9",
             "a", "b", "c", "d", "e", "f", "A", "B", "C", "D", "E", "F"}

\* /^[0-9a-fA-F]{7,}$/.test(ref)
isCommitSha(ref) ==
  Len(ref) >= 7 /\ \A k \in 1..Len(ref) : SubSeq(ref, k, k) \in HexChars

\* shouldSkipSync(skillName, config, skillsPath): the skip decision
shouldSkipSync(cfg, dir) ==
  IF ~dir.exists
    THEN [shouldSkip |-> FALSE, needsInteraction |-> FALSE, reason |-> "not synced yet"]
  ELSE LET metadata == loadMetadata(dir) IN
    IF metadata = NoMetadata
      THEN [shouldSkip |-> FALSE, needsInteraction |-> FALSE, reason |-> "no metadata"]
    ELSE IF \/ metadata.remote # cfg.remote
            \/ metadata.ref # resolveRef(cfg.ref, parseGitUrl(cfg.remote).ref)
            \/ metadata.type # cfg.type
      THEN [shouldSkip |-> FALSE, needsInteraction |-> FALSE, reason |-> "configuration changed"]
    ELSE IF calculateContentHash(dir, {}) = metadata.contentHash
      THEN [shouldSkip |-> TRUE, needsInteraction |-> FALSE, reason |-> "up to date"]
      ELSE [shouldSkip |-> FALSE, needsInteraction |-> TRUE,
            reason |-> "local modifications detected"]

\* getAllAgentTypes(): the consumers
AgentTypes == {"antigravity", "claude-code", "codex", "cursor", "gemini-cli", "github-copilot"}

\* Object.keys(AGENT_PATHS), in order
AgentOrder ==
  <<"antigravity", "claude-code", "codex", "cursor", "gemini-cli", "github-copilot">>

\* os.homedir(), as path segments
HOME == <<"home", "u">>

\* AGENT_PATHS[agent].global, the segments after ~
AGENT_PATHS ==
  [a \in AgentTypes |->
     IF a = "antigravity" THEN <<".gemini", "antigravity", "global_skills">>
     ELSE IF a = "claude-code" THEN <<".claude", "skills">>
     ELSE IF a = "codex" THEN <<".codex", "skills">>
     ELSE IF a = "cursor" THEN <<".cursor", "skills">>
     ELSE IF a = "gemini-cli" THEN <<".gemini", "skills">>
     ELSE <<".copilot", "skills">>]

\* the name of the skill
SKILL_NAME == "x"

\* getAgentGlobalPath(agent) = resolveHomePath(AGENT_PATHS[agent].global)
getAgentGlobalPath(agent) == HOME \o AGENT_PATHS[agent]

\* path.join(agentPath, skillName)
symlinkPath(agent) == Append(getAgentGlobalPath(agent), SKILL_NAME)

\* path.resolve(p) of an absolute path given by its segments: ".." removes
\* the segment before it
RECURSIVE resolveFrom(_, _)
resolveFrom(done, rest) ==
  IF rest = <<>> THEN done
  ELSE IF Head(rest) = ".."
    THEN resolveFrom(IF done = <<>> THEN done ELSE SubSeq(done, 1, Len(done) - 1), Tail(rest))
    ELSE resolveFrom(Append(done, Head(rest)), Tail(rest))

pathResolve(p) == resolveFrom(<<>>, p)

\* the string of an absolute path
pathString(p) == IF p = <<>> THEN "/" ELSE "/" \o joinPath(p)

\* String.prototype.startsWith
startsWith(str, prefix) ==
  Len(str) >= Len(prefix) /\ SubSeq(str, 1, Len(prefix)) = prefix

\* mutant: the separator is not appended to the base
validatePathWithinBase_NoSeparator(basePath, targetPath) ==
  LET resolvedBase == pathString(pathResolve(basePath))
      resolvedTarget == pathString(pathResolve(targetPath))
  IN startsWith(resolvedTarget, resolvedBase) \/ resolvedTarget = resolvedBase

\* validatePathWithinBase(basePath, targetPath) does not throw
validatePathWithinBase(basePath, targetPath) ==
  LET resolvedBase == pathString(pathResolve(basePath))
      resolvedTarget == pathString(pathResolve(targetPath))
  IN startsWith(resolvedTarget, resolvedBase \o "/") \/ resolvedTarget = resolvedBase

\* isValidTarget of createSymlink: allAgentPaths.some(...)
isValidTarget(target) ==
  \E a \in AgentTypes : validatePathWithinBase(getAgentGlobalPath(a), target)

\* remote URLs of a GIT_FOLDER skill: .../o/r/tree/dev/skills/x,
\* .../o/r/skills/x and .../o/r (no folder path)
Remotes ==
  { [platform |-> "github", parts |-> <<"o", "r", "tree", "dev", "skills", "x">>],
    [platform |-> "github", parts |-> <<"o", "r", "skills", "x">>],
    [platform |-> "github", parts |-> <<"o", "r">>] }

\* config.ref: absent or a commit SHA
ConfigRefs == {"", "abc1234"}

\* config.agents: absent (all agents) or a subset
AgentChoices == {{}, {"cursor", "codex"}, {"codex", "vim"}}

\* config.type: a folder of a git repository, or absent
ConfigTypes == {"GIT_FOLDER", ""}

\* a key of a skill entry that is not a safe directory name
UNSAFE_NAME == "../x"

\* the entries: every configuration under the name of the skill, and two
\* under the unsafe name
SkillConfigs ==
  [remote : Remotes, ref : ConfigRefs, type : ConfigTypes, agents : AgentChoices,
   name : {SKILL_NAME}]
  \cup [remote : {[platform |-> "github", parts |-> <<"o", "r", "skills", "x">>]},
        ref : {""}, type : ConfigTypes, agents : {{}}, name : {UNSAFE_NAME}]

\* the folder of the repository at the configured path: absent, or its files
RemoteTrees ==
  {NoDir} \cup
  { [exists |-> TRUE, files |-> [q \in S |-> [bytes |-> "v1"]]] :
      S \in {{P_SKILL}, {P_SKILL, P_DOC}, {P_SKILL, P_DOC, P_HIDDEN}} }

\* what occupies a path: nothing, a symlink to the content directory of the
\* skill, a symlink to another destination that exists, a symlink to another
\* destination that does not exist, a real file or directory
LinkStates == {"none", "link", "other", "dangling", "real"}

LinkInits ==
  { [a \in AgentTypes |-> IF a = "cursor" THEN "real"
                          ELSE IF a = "codex" THEN "other"
                          ELSE IF a = "gemini-cli" THEN "dangling" ELSE "none"] }

FetchResult(success, skipped, error, reason) ==
  [skillName |-> "x", success |-> success, skipped |-> skipped,
   error |-> error, reason |-> reason]

\* before the first run: a loaded configuration, nothing synced yet
SyncStart ==
  /\ scfg \in SkillConfigs
  /\ remoteTree \in RemoteTrees
  /\ dryRun = FALSE
  /\ force = FALSE
  /\ spc = "idle"
  /\ content = NoDir
  /\ tempDir = NoDir
  /\ fetchErr = ""
  /\ fref = ""
  /\ pendingHash = ""
  /\ links \in LinkInits
  /\ runNo = 0
  /\ lastResult = NoResult
  /\ fetchedInRun = FALSE
  /\ synced = NeverSynced
  /\ decision = NoDecision
  /\ intact = FALSE
  /\ ops = <<>>
  /\ edits = 0
  /\ failures = 0

\* an entry of the log of operations: the operation called and whether it
\* completed without throwing; for shouldOverwrite, the answer to the prompt
did(op, ok) == [op |-> op, ok |-> ok]

\* syncSingleSkill returns result
finish(result) ==
  /\ lastResult' = result
  /\ spc' = "idle"

\* a directory restricted to the files of S
keepFiles(dir, S) == [dir EXCEPT !.files = [q \in S |-> dir.files[q]]]

\* sanitizeSkillName(name): the message of the error it throws, "" when the
\* name is a safe identifier (not empty, no path separator, no "..")
sanitizeSkillName(name) ==
  IF Len(name) = 0 THEN "Skill name must be a non-empty string"
  ELSE IF includes(name, "/") \/ includes(name, "..") THEN "Invalid skill name"
  ELSE ""

\* mutant: the type of the configuration is not checked
validateSkillConfig_TypeNotChecked(skillName, cfg) ==
  IF sanitizeSkillName(skillName) # "" THEN sanitizeSkillName(skillName)
  ELSE IF cfg.remote = NoRemote THEN "missing remote field"
  ELSE ""

\* validateSkillConfig(skillName, config): the message of the error it
\* throws, "" when it returns
validateSkillConfig(skillName, cfg) ==
  IF sanitizeSkillName(skillName) # "" THEN sanitizeSkillName(skillName)
  ELSE IF cfg.type = "" THEN "missing type field"
  ELSE IF cfg.type \notin VALID_SKILL_TYPES THEN "invalid type"
  ELSE IF cfg.remote = NoRemote THEN "missing remote field"
  ELSE ""

\* mutant: the force list is not looked at
syncStart_ForceNotTested(d, f) ==
  /\ spc = "idle"
  /\ runNo < MaxRuns
  /\ runNo' = runNo + 1
  /\ dryRun' = d
  /\ force' = f
  /\ fetchedInRun' = FALSE
  /\ edits' = 0
  /\ intact' = (synced.valid /\ content.exists /\ content.files = synced.files)
  /\ tempDir' = NoDir
  /\ fetchErr' = ""
  /\ fref' = ""
  /\ pendingHash' = ""
  /\ UNCHANGED failures
  /\ IF validateSkillConfig(scfg.name, scfg) # ""
       THEN /\ finish(FetchResult(FALSE, FALSE, validateSkillConfig(scfg.name, scfg), ""))
            /\ decision' = NoDecision
            /\ ops' = <<>>
     ELSE IF d
       THEN /\ finish(FetchResult(TRUE, FALSE, "", ""))
            /\ decision' = NoDecision
            /\ ops' = <<>>
     ELSE LET skipCheck == shouldSkipSync(scfg, content) IN
            /\ decision' = skipCheck
            /\ IF skipCheck.shouldSkip
                 THEN /\ finish(FetchResult(TRUE, TRUE, "", skipCheck.reason))
                      /\ ops' = <<did("shouldSkipSync", TRUE)>>
               ELSE IF skipCheck.needsInteraction
                 THEN /\ spc' = "prompt"
                      /\ ops' = <<did("shouldSkipSync", TRUE), did("promptForOverwrite", TRUE)>>
                      /\ UNCHANGED lastResult
               ELSE /\ spc' = "fetch"
                    /\ ops' = <<did("shouldSkipSync", TRUE)>>
                    /\ UNCHANGED lastResult
  /\ UNCHANGED <<scfg, remoteTree, content, links, synced>>
  /\ UNCHANGED <<schedVars, retryVars, hashVars, linkVars, configVars>>

\* mutant: the force list is tested before the dry-run flag
syncStart_ForceBeforeDryRun(d, f) ==
  /\ spc = "idle"
  /\ runNo < MaxRuns
  /\ runNo' = runNo + 1
  /\ dryRun' = d
  /\ force' = f
  /\ fetchedInRun' = FALSE
  /\ edits' = 0
  /\ intact' = (synced.valid /\ content.exists /\ content.files = synced.files)
  /\ tempDir' = NoDir
  /\ fetchErr' = ""
  /\ fref' = ""
  /\ pendingHash' = ""
  /\ UNCHANGED failures
  /\ IF validateSkillConfig(scfg.name, scfg) # ""
       THEN /\ finish(FetchResult(FALSE, FALSE, validateSkillConfig(scfg.name, scfg), ""))
            /\ decision' = NoDecision
            /\ ops' = <<>>
     ELSE IF f
       THEN /\ spc' = "fetch"
            /\ decision' = NoDecision
            /\ ops' = <<>>
            /\ UNCHANGED lastResult
     ELSE IF d
       THEN /\ finish(FetchResult(TRUE, FALSE, "", ""))
            /\ decision' = NoDecision
            /\ ops' = <<>>
     ELSE LET skipCheck == shouldSkipSync(scfg, content) IN
            /\ decision' = skipCheck
            /\ IF skipCheck.shouldSkip
                 THEN /\ finish(FetchResult(TRUE, TRUE, "", skipCheck.reason))
                      /\ ops' = <<did("shouldSkipSync", TRUE)>>
               ELSE IF skipCheck.needsInteraction
                 THEN /\ spc' = "prompt"
                      /\ ops' = <<did("shouldSkipSync", TRUE), did("promptForOverwrite", TRUE)>>
                      /\ UNCHANGED lastResult
               ELSE /\ spc' = "fetch"
                    /\ ops' = <<did("shouldSkipSync", TRUE)>>
                    /\ UNCHANGED lastResult
  /\ UNCHANGED <<scfg, remoteTree, content, links, synced>>
  /\ UNCHANGED <<schedVars, retryVars, hashVars, linkVars, configVars>>

\* syncSingleSkill up to its first suspension: validation, dry-run
\* short-circuit, force test and skip decision
syncStart(d, f) ==
  /\ spc = "idle"
  /\ runNo < MaxRuns
  /\ runNo' = runNo + 1
  /\ dryRun' = d
  /\ force' = f
  /\ fetchedInRun' = FALSE
  /\ edits' = 0
  /\ intact' = (synced.valid /\ content.exists /\ content.files = synced.files)
  /\ tempDir' = NoDir
  /\ fetchErr' = ""
  /\ fref' = ""
  /\ pendingHash' = ""
  /\ UNCHANGED failures
  /\ IF sanitizeSkillName(scfg.name) # ""
       THEN /\ finish([FetchResult(FALSE, FALSE, sanitizeSkillName(scfg.name), "")
                         EXCEPT !.skillName = scfg.name])
            /\ decision' = NoDecision
            /\ ops' = <<>>
     ELSE IF validateSkillConfig(scfg.name, scfg) # ""
       THEN /\ finish(FetchResult(FALSE, FALSE, validateSkillConfig(scfg.name, scfg), ""))
            /\ decision' = NoDecision
            /\ ops' = <<>>
     ELSE IF d
       THEN /\ finish(FetchResult(TRUE, FALSE, "", ""))
            /\ decision' = NoDecision
            /\ ops' = <<>>
     ELSE IF f
       THEN /\ spc' = "fetch"
            /\ decision' = NoDecision
            /\ ops' = <<>>
            /\ UNCHANGED lastResult
     ELSE LET skipCheck == shouldSkipSync(scfg, content) IN
            /\ decision' = skipCheck
            /\ IF skipCheck.shouldSkip
                 THEN /\ finish(FetchResult(TRUE, TRUE, "", skipCheck.reason))
                      /\ ops' = <<did("shouldSkipSync", TRUE)>>
               ELSE IF skipCheck.needsInteraction
                 THEN /\ spc' = "prompt"
                      /\ ops' = <<did("shouldSkipSync", TRUE), did("promptForOverwrite", TRUE)>>
                      /\ UNCHANGED lastResult
               ELSE /\ spc' = "fetch"
                    /\ ops' = <<did("shouldSkipSync", TRUE)>>
                    /\ UNCHANGED lastResult
  /\ UNCHANGED <<scfg, remoteTree, content, links, synced>>
  /\ UNCHANGED <<schedVars, retryVars, hashVars, linkVars, configVars>>

\* mutant: the answer of the prompt is not looked at
promptAnswer_IgnoresAnswer(shouldOverwrite) ==
  /\ spc = "prompt"
  /\ ops' = Append(ops, did("shouldOverwrite", shouldOverwrite))
  /\ UNCHANGED <<intact, edits, failures>>
  /\ spc' = "fetch" /\ UNCHANGED lastResult
  /\ UNCHANGED <<scfg, remoteTree, dryRun, force, content, tempDir, fetchErr, fref,
                 pendingHash, links, runNo, fetchedInRun, synced, decision>>
  /\ UNCHANGED <<schedVars, retryVars, hashVars, linkVars, configVars>>

\* promptForOverwrite(skillName) is answered
promptAnswer(shouldOverwrite) ==
  /\ spc = "prompt"
  /\ ops' = Append(ops, did("shouldOverwrite", shouldOverwrite))
  /\ UNCHANGED <<intact, edits, failures>>
  /\ IF shouldOverwrite
       THEN spc' = "fetch" /\ UNCHANGED lastResult
       ELSE finish(FetchResult(TRUE, TRUE, "", decision.reason))
  /\ UNCHANGED <<scfg, remoteTree, dryRun, force, content, tempDir, fetchErr, fref,
                 pendingHash, links, runNo, fetchedInRun, synced, decision>>
  /\ UNCHANGED <<schedVars, retryVars, hashVars, linkVars, configVars>>

\* FetcherFactory.getFetcher, then fetchGitFolder up to fs.mkdtemp
fetchBegin ==
  /\ spc = "fetch"
  /\ fetchedInRun' = TRUE
  /\ ops' = Append(ops, did("fetch", parseGitUrl(scfg.remote).path # <<>>))
  /\ UNCHANGED <<intact, edits, failures>>
  /\ LET parsed == parseGitUrl(scfg.remote) IN
       IF parsed.path = <<>>
         THEN /\ finish(FetchResult(FALSE, FALSE, "GIT_FOLDER URL must include a folder path", ""))
              /\ UNCHANGED fref
         ELSE /\ fref' = resolveRef(scfg.ref, parsed.ref)
              /\ spc' = "f_mkdtemp"
              /\ UNCHANGED lastResult
  /\ fetchErr' = ""
  /\ UNCHANGED <<scfg, remoteTree, dryRun, force, content, tempDir, pendingHash,
                 links, runNo, synced, decision>>
  /\ UNCHANGED <<schedVars, retryVars, hashVars, linkVars, configVars>>

\* a step inside the try block of fetchGitFolder throws
fetchThrow(message) ==
  /\ fetchErr' = message
  /\ spc' = "f_cleanup"

\* tempDir = await fs.mkdtemp(tempBase)
fetchMkdtemp(ok) ==
  /\ spc = "f_mkdtemp"
  /\ ops' = Append(ops, did("mkdtemp", ok))
  /\ UNCHANGED <<intact, edits>>
  /\ (ok \/ failures < MaxFailures)
  /\ failures' = IF ok THEN failures ELSE failures + 1
  /\ IF ok
       THEN /\ tempDir' = EmptyDir
            /\ spc' = "f_clone"
            /\ UNCHANGED lastResult
       ELSE /\ finish(FetchResult(FALSE, FALSE, "Failed to create temporary directory", ""))
            /\ UNCHANGED tempDir
  /\ UNCHANGED <<scfg, remoteTree, dryRun, force, content, fetchErr, fref, pendingHash,
                 links, runNo, fetchedInRun, synced, decision>>
  /\ UNCHANGED <<schedVars, retryVars, hashVars, linkVars, configVars>>

\* await withRetry(() => git.clone(...)): the outcome of the retried clone
fetchClone(ok) ==
  /\ spc = "f_clone"
  /\ ops' = Append(ops, did("clone", ok))
  /\ UNCHANGED <<intact, edits>>
  /\ (ok \/ failures < MaxFailures)
  /\ failures' = IF ok THEN failures ELSE failures + 1
  /\ IF ok
       THEN /\ tempDir' = [exists |-> TRUE, files |-> remoteTree.files]
            /\ spc' = IF isCommitSha(fref) THEN "f_checkout" ELSE "f_ensure"
            /\ UNCHANGED fetchErr
       ELSE /\ fetchThrow("Failed to fetch Git folder")
            /\ UNCHANGED tempDir
  /\ UNCHANGED <<scfg, remoteTree, dryRun, force, content, fref, pendingHash,
                 links, runNo, lastResult, fetchedInRun, synced, decision>>
  /\ UNCHANGED <<schedVars, retryVars, hashVars, linkVars, configVars>>

\* await repoGit.checkout(ref)
fetchCheckout(ok) ==
  /\ spc = "f_checkout"
  /\ ops' = Append(ops, did("checkout", ok))
  /\ UNCHANGED <<intact, edits>>
  /\ (ok \/ failures < MaxFailures)
  /\ failures' = IF ok THEN failures ELSE failures + 1
  /\ IF ok
       THEN spc' = "f_ensure" /\ UNCHANGED fetchErr
       ELSE fetchThrow("Failed to fetch Git folder")
  /\ UNCHANGED <<scfg, remoteTree, dryRun, force, content, tempDir, fref, pendingHash,
                 links, runNo, lastResult, fetchedInRun, synced, decision>>
  /\ UNCHANGED <<schedVars, retryVars, hashVars, linkVars, configVars>>

\* validateFilePath(tempDir, sourcePath); await ensureSkillDirectory(...)
fetchEnsureDir(ok) ==
  /\ spc = "f_ensure"
  /\ ops' = ops \o <<did("validateFilePath(sourcePath)", TRUE), did("ensureSkillDirectory", ok)>>
  /\ UNCHANGED <<intact, edits>>
  /\ (ok \/ failures < MaxFailures)
  /\ failures' = IF ok THEN failures ELSE failures + 1
  /\ IF ok
       THEN /\ content' = IF content.exists THEN content ELSE EmptyDir
            /\ spc' = "f_clear"
            /\ UNCHANGED fetchErr
       ELSE /\ fetchThrow("Failed to fetch Git folder")
            /\ UNCHANGED content
  /\ UNCHANGED <<scfg, remoteTree, dryRun, force, tempDir, fref, pendingHash,
                 links, runNo, lastResult, fetchedInRun, synced, decision>>
  /\ UNCHANGED <<schedVars, retryVars, hashVars, linkVars, configVars>>

\* await clearDirectory(skillDir); a failing fs.emptyDir may have removed
\* part of the entries
fetchClear(ok) ==
  /\ spc = "f_clear"
  /\ ops' = Append(ops, did("clearDirectory", ok))
  /\ UNCHANGED <<intact, edits>>
  /\ (ok \/ failures < MaxFailures)
  /\ failures' = IF ok THEN failures ELSE failures + 1
  /\ IF ok
       THEN /\ content' = EmptyDir
            /\ spc' = "f_copy"
            /\ UNCHANGED fetchErr
       ELSE /\ \E S \in SUBSET (DOMAIN content.files) : content' = keepFiles(content, S)
            /\ fetchThrow("Failed to fetch Git folder")
  /\ UNCHANGED <<scfg, remoteTree, dryRun, force, tempDir, fref, pendingHash,
                 links, runNo, lastResult, fetchedInRun, synced, decision>>
  /\ UNCHANGED <<schedVars, retryVars, hashVars, linkVars, configVars>>

\* validateFilePath(skillsPath, skillDir); await copyDirectory(sourcePath,
\* skillDir): fs.copy throws when the source folder is not in the clone, and a
\* failing copy may have written part of the files
fetchCopy(ok) ==
  /\ spc = "f_copy"
  /\ ops' = ops \o <<did("validateFilePath(skillDir)", TRUE),
                    did("copyDirectory", ok /\ remoteTree.exists)>>
  /\ UNCHANGED <<intact, edits>>
  /\ (ok \/ failures < MaxFailures)
  /\ failures' = IF ok THEN failures ELSE failures + 1
  /\ IF ok /\ remoteTree.exists
       THEN /\ content' = [content EXCEPT !.files =
                 [q \in DOMAIN content.files \cup DOMAIN tempDir.files |->
                    IF q \in DOMAIN tempDir.files THEN tempDir.files[q]
                    ELSE content.files[q]]]
            /\ spc' = "f_hash"
            /\ UNCHANGED fetchErr
       ELSE /\ \E S \in SUBSET (DOMAIN tempDir.files) :
                 content' = [content EXCEPT !.files =
                   [q \in DOMAIN content.files \cup S |->
                      IF q \in S THEN tempDir.files[q] ELSE content.files[q]]]
            /\ fetchThrow("Failed to fetch Git folder")
  /\ UNCHANGED <<scfg, remoteTree, dryRun, force, tempDir, fref, pendingHash,
                 links, runNo, lastResult, fetchedInRun, synced, decision>>
  /\ UNCHANGED <<schedVars, retryVars, hashVars, linkVars, configVars>>

\* the directories calculateContentHash lists: the root and the
\* subdirectories that are not dot-prefixed
listedDirs(files) ==
  {<<>>} \cup {<<name>> : name \in {n \in readdir(files, <<>>) :
                   isDirectory(files, <<>>, n) /\ SubSeq(n, 1, 1) # "."}}

\* contentHash: await calculateContentHash(skillDir), the argument of
\* saveMetadata; ok says that no file read fails (a failing hashFile rejects
\* and calculateContentHash throws), denied are the directories whose
\* fs.readdir fails
fetchHash(ok, denied) ==
  /\ spc = "f_hash"
  /\ denied \subseteq listedDirs(content.files)
  /\ Cardinality(denied) <= 1
  /\ ok \/ denied = {}
  /\ ops' = ops \o (IF denied # {} THEN <<did("readdir", FALSE)>> ELSE <<>>)
                \o <<did("calculateContentHash", ok)>>
  /\ UNCHANGED <<intact, edits>>
  /\ ((ok /\ denied = {}) \/ failures < MaxFailures)
  /\ failures' = IF ok /\ denied = {} THEN failures ELSE failures + 1
  /\ IF ok
       THEN /\ pendingHash' = calculateContentHash(content, denied)
            /\ spc' = "f_save"
            /\ UNCHANGED fetchErr
       ELSE /\ fetchThrow("Failed to calculate content hash")
            /\ UNCHANGED pendingHash
  /\ UNCHANGED <<scfg, remoteTree, dryRun, force, content, tempDir, fref,
                 links, runNo, lastResult, fetchedInRun, synced, decision>>
  /\ UNCHANGED <<schedVars, retryVars, hashVars, linkVars, configVars>>

\* await saveMetadata(skillDir, {remote, ref, type, lastSync, contentHash})
fetchSaveMetadata(ok) ==
  /\ spc = "f_save"
  /\ ops' = Append(ops, did("saveMetadata", ok))
  /\ UNCHANGED <<intact, edits>>
  /\ (ok \/ failures < MaxFailures)
  /\ failures' = IF ok THEN failures ELSE failures + 1
  /\ IF ok
       THEN /\ content' = saveMetadata(content,
                 [remote |-> scfg.remote, ref |-> fref, type |-> scfg.type,
                  lastSync |-> "T" \o ToString(runNo), contentHash |-> pendingHash])
            /\ synced' = [valid |-> TRUE, files |-> content'.files, cfg |-> scfg]
            /\ spc' = "f_cleanup"
            /\ UNCHANGED fetchErr
       ELSE /\ fetchThrow("Failed to save metadata")
            /\ UNCHANGED <<content, synced>>
  /\ UNCHANGED <<scfg, remoteTree, dryRun, force, tempDir, fref, pendingHash,
                 links, runNo, lastResult, fetchedInRun, decision>>
  /\ UNCHANGED <<schedVars, retryVars, hashVars, linkVars, configVars>>

\* mutant: a failure of the removal is thrown out of the finally block
fetchCleanup_ThrowsCleanupError(ok) ==
  /\ spc = "f_cleanup"
  /\ ops' = Append(ops, did("removeDirectory", ok))
  /\ UNCHANGED <<intact, edits>>
  /\ (ok \/ failures < MaxFailures)
  /\ failures' = IF ok THEN failures ELSE failures + 1
  /\ tempDir' = IF ok THEN NoDir ELSE tempDir
  /\ IF ~ok
       THEN finish(FetchResult(FALSE, FALSE, "Failed to clean up temporary directory", ""))
     ELSE IF fetchErr # ""
       THEN finish(FetchResult(FALSE, FALSE, fetchErr, ""))
       ELSE spc' = "fanout" /\ UNCHANGED lastResult
  /\ UNCHANGED <<scfg, remoteTree, dryRun, force, content, fetchErr, fref, pendingHash,
                 links, runNo, fetchedInRun, synced, decision>>
  /\ UNCHANGED <<schedVars, retryVars, hashVars, linkVars, configVars>>

\* mutant: the fan-out follows a failed fetch too
fetchCleanup_FanoutAfterFailure(ok) ==
  /\ spc = "f_cleanup"
  /\ ops' = Append(ops, did("removeDirectory", ok))
  /\ UNCHANGED <<intact, edits>>
  /\ (ok \/ failures < MaxFailures)
  /\ failures' = IF ok THEN failures ELSE failures + 1
  /\ tempDir' = IF ok THEN NoDir ELSE tempDir
  /\ spc' = "fanout"
  /\ UNCHANGED lastResult
  /\ UNCHANGED <<scfg, remoteTree, dryRun, force, content, fetchErr, fref, pendingHash,
                 links, runNo, fetchedInRun, synced, decision>>
  /\ UNCHANGED <<schedVars, retryVars, hashVars, linkVars, configVars>>

\* finally: await removeDirectory(tempDir), a failure is logged; then
\* fetchGitFolder rethrows its error or returns
fetchCleanup(ok) ==
  /\ spc = "f_cleanup"
  /\ ops' = Append(ops, did("removeDirectory", ok))
  /\ UNCHANGED <<intact, edits>>
  /\ (ok \/ failures < MaxFailures)
  /\ failures' = IF ok THEN failures ELSE failures + 1
  /\ tempDir' = IF ok THEN NoDir ELSE tempDir
  /\ IF fetchErr # ""
       THEN finish(FetchResult(FALSE, FALSE, fetchErr, ""))
       ELSE spc' = "fanout" /\ UNCHANGED lastResult
  /\ UNCHANGED <<scfg, remoteTree, dryRun, force, content, fetchErr, fref, pendingHash,
                 links, runNo, fetchedInRun, synced, decision>>
  /\ UNCHANGED <<schedVars, retryVars, hashVars, linkVars, configVars>>

\* fs.pathExists(path): fs.access, which follows symbolic links
pathExists(entry, sourceExists) ==
  entry \in {"real", "other"} \/ (entry = "link" /\ sourceExists)

\* (await fs.lstat(path)).isSymbolicLink()
isSymbolicLink(entry) == entry \in {"link", "other", "dangling"}

\* the filesystem call of createSymlink or removeSymlink that fails, if any
FailSteps == {"none", "ensureDir", "lstat", "unlink", "symlink"}

\* mutant: whatever occupies the target is removed, a real entry included
createSymlink_ReplacesRealEntry(sourceExists, validTarget, entry, failAt) ==
  IF ~sourceExists THEN [entry |-> entry, ensured |-> FALSE, thrown |-> TRUE]
  ELSE IF ~validTarget THEN [entry |-> entry, ensured |-> FALSE, thrown |-> TRUE]
  ELSE IF failAt = "ensureDir" THEN [entry |-> entry, ensured |-> FALSE, thrown |-> TRUE]
  ELSE IF pathExists(entry, sourceExists) /\ failAt = "lstat"
    THEN [entry |-> entry, ensured |-> TRUE, thrown |-> TRUE]
  ELSE IF pathExists(entry, sourceExists) /\ failAt = "unlink"
    THEN [entry |-> entry, ensured |-> TRUE, thrown |-> TRUE]
  ELSE LET unlinked == IF pathExists(entry, sourceExists) THEN "none" ELSE entry IN
    IF failAt = "symlink" \/ unlinked # "none"
      THEN [entry |-> unlinked, ensured |-> TRUE, thrown |-> TRUE]
      ELSE [entry |-> "link", ensured |-> TRUE, thrown |-> FALSE]

\* createSymlink(source, target, skillName) on the entry at target: the entry
\* afterwards, whether fs.ensureDir(targetDir) completed, whether the call
\* throws. fs.symlink fails with EEXIST when the path is occupied.
createSymlink(sourceExists, validTarget, entry, failAt) ==
  IF ~sourceExists THEN [entry |-> entry, ensured |-> FALSE, thrown |-> TRUE]
  ELSE IF ~validTarget THEN [entry |-> entry, ensured |-> FALSE, thrown |-> TRUE]
  ELSE IF failAt = "ensureDir" THEN [entry |-> entry, ensured |-> FALSE, thrown |-> TRUE]
  ELSE IF pathExists(entry, sourceExists) /\ failAt = "lstat"
    THEN [entry |-> entry, ensured |-> TRUE, thrown |-> TRUE]
  ELSE IF pathExists(entry, sourceExists) /\ ~isSymbolicLink(entry)
    THEN [entry |-> entry, ensured |-> TRUE, thrown |-> FALSE]
  ELSE IF pathExists(entry, sourceExists) /\ failAt = "unlink"
    THEN [entry |-> entry, ensured |-> TRUE, thrown |-> TRUE]
  ELSE LET unlinked == IF pathExists(entry, sourceExists) THEN "none" ELSE entry IN
    IF failAt = "symlink" \/ unlinked # "none"
      THEN [entry |-> unlinked, ensured |-> TRUE, thrown |-> TRUE]
      ELSE [entry |-> "link", ensured |-> TRUE, thrown |-> FALSE]

\* the agents of the call that AGENT_PATHS knows
knownAgents(agents) == (IF agents # {} THEN agents ELSE AgentTypes) \cap AgentTypes

\* the agents from the k-th on are linked one after the other and the first
\* failure ends the loop
RECURSIVE linkOneByOne(_, _, _, _, _)
linkOneByOne(sourceExists, entries, agents, failAt, k) ==
  IF k > Len(AgentOrder) THEN [entries |-> entries, thrown |-> FALSE]
  ELSE LET a == AgentOrder[k] IN
    IF a \notin knownAgents(agents)
      THEN linkOneByOne(sourceExists, entries, agents, failAt, k + 1)
    ELSE LET r == createSymlink(sourceExists, isValidTarget(symlinkPath(a)), entries[a], failAt[a]) IN
      IF r.thrown THEN [entries |-> [entries EXCEPT ![a] = r.entry], thrown |-> TRUE]
      ELSE linkOneByOne(sourceExists, [entries EXCEPT ![a] = r.entry], agents, failAt, k + 1)

\* mutant: a sequential loop without the try/catch around createSymlink
createSymlinksForSkill_StopsAtFirstFailure(sourceExists, entries, agents, failAt) ==
  linkOneByOne(sourceExists, entries, agents, failAt, 1)

\* createSymlinksForSkill(skillName, skillSourcePath, agents): Promise.all of
\* one createSymlink per target agent, each inside its own try/catch;
\* getAgentGlobalPath, outside the try, throws for an agent that AGENT_PATHS
\* does not know and Promise.all rejects
createSymlinksForSkill(sourceExists, entries, agents, failAt) ==
  [entries |->
     [a \in AgentTypes |->
        IF a \in knownAgents(agents)
          THEN createSymlink(sourceExists, isValidTarget(symlinkPath(a)),
                             entries[a], failAt[a]).entry
          ELSE entries[a]],
   thrown |-> (agents \ AgentTypes) # {}]

\* removeSymlink(target) on the entry at target; every error is caught
removeSymlink(sourceExists, entry, failAt) ==
  IF ~pathExists(entry, sourceExists) THEN entry
  ELSE IF failAt = "lstat" THEN entry
  ELSE IF ~isSymbolicLink(entry) THEN entry
  ELSE IF failAt = "unlink" THEN entry
  ELSE "none"

\* removeSymlinksForSkill(skillName, agents): removeSymlink for every target
\* agent, one after the other
removeSymlinksForSkill(sourceExists, entries, agents, failAt) ==
  [a \in AgentTypes |->
     IF a \in knownAgents(agents)
       THEN removeSymlink(sourceExists, entries[a], failAt[a])
       ELSE entries[a]]

\* per agent, the filesystem call that fails: at most MaxLinkFailures agents
\* meet a failure
FailAts ==
  { f \in [AgentTypes -> FailSteps] :
      Cardinality({a \in AgentTypes : f[a] # "none"}) <= MaxLinkFailures }

\* mutant: a failure of the fan-out fails the skill
syncFanout_SymlinkErrorFails ==
  /\ spc = "fanout"
  /\ UNCHANGED <<intact, edits>>
  /\ \E failAt \in FailAts :
       LET failing == {a \in AgentTypes : failAt[a] # "none"}
           fanout == createSymlinksForSkill(content.exists, links, scfg.agents, failAt)
       IN /\ failing \subseteq knownAgents(scfg.agents)
          /\ failures + Cardinality(failing) <= MaxFailures
          /\ failures' = failures + Cardinality(failing)
          /\ links' = fanout.entries
          /\ ops' = Append(ops, did("createSymlinksForSkill", ~fanout.thrown))
          /\ IF fanout.thrown \/ failing # {}
               THEN finish(FetchResult(FALSE, FALSE, "Failed to create symlink", ""))
               ELSE finish(FetchResult(TRUE, FALSE, "", ""))
  /\ UNCHANGED <<scfg, remoteTree, dryRun, force, content, tempDir, fetchErr, fref,
                 pendingHash, runNo, fetchedInRun, synced, decision>>
  /\ UNCHANGED <<schedVars, retryVars, hashVars, linkVars, configVars>>

\* await createSymlinksForSkill(skillName, skillSourcePath, skillConfig.agents);
\* return { skillName, success: true }
syncFanout ==
  /\ spc = "fanout"
  /\ UNCHANGED <<intact, edits>>
  /\ \E failAt \in FailAts :
       LET failing == {a \in AgentTypes : failAt[a] # "none"}
           fanout == createSymlinksForSkill(content.exists, links, scfg.agents, failAt)
       IN /\ failing \subseteq knownAgents(scfg.agents)
          /\ failures + Cardinality(failing) <= MaxFailures
          /\ failures' = failures + Cardinality(failing)
          /\ links' = fanout.entries
          /\ ops' = Append(ops, did("createSymlinksForSkill", ~fanout.thrown))
  /\ finish(FetchResult(TRUE, FALSE, "", ""))
  /\ UNCHANGED <<scfg, remoteTree, dryRun, force, content, tempDir, fetchErr, fref,
                 pendingHash, runNo, fetchedInRun, synced, decision>>
  /\ UNCHANGED <<schedVars, retryVars, hashVars, linkVars, configVars>>

\* what an edit makes of the metadata file
MetadataEdits ==
  {"lastSync", "invalid JSON", "null", "number", "unreadable",
   "no contentHash", "no lastSync", "empty type", "empty remote"}

metadataEdit(file, kind) ==
  IF kind = "invalid JSON" THEN [bytes |-> "{"]
  ELSE IF kind = "null" THEN JsonNull
  ELSE IF kind = "number" THEN JsonNumber
  ELSE IF kind = "unreadable" THEN [unreadable |-> TRUE]
  ELSE IF "remote" \notin DOMAIN file THEN [bytes |-> "{"]
  ELSE IF kind = "no contentHash"
    THEN [name \in DOMAIN file \ {"contentHash"} |-> file[name]]
  ELSE IF kind = "no lastSync"
    THEN [name \in DOMAIN file \ {"lastSync"} |-> file[name]]
  ELSE IF kind = "empty type" THEN [file EXCEPT !.type = ""]
  ELSE IF kind = "empty remote" THEN [file EXCEPT !.remote = NoRemote]
  ELSE IF "lastSync" \in DOMAIN file THEN [file EXCEPT !.lastSync = "edited"]
  ELSE file

\* between two runs the user changes the bytes of a file of the content
\* directory, or the metadata file in one of the ways above
localEdit(q, kind) ==
  /\ spc = "idle"
  /\ runNo < MaxRuns
  /\ edits < MaxEdits
  /\ edits' = edits + 1
  /\ content.exists
  /\ q \in DOMAIN content.files
  /\ UNCHANGED <<intact, ops, failures>>
  /\ content' = [content EXCEPT !.files[q] =
       IF q = P_META THEN metadataEdit(@, kind)
       ELSE [bytes |-> IF @.bytes = "v1" THEN "v2" ELSE "v1"]]
  /\ UNCHANGED <<scfg, remoteTree, dryRun, force, spc, tempDir, fetchErr, fref,
                 pendingHash, links, runNo, lastResult, fetchedInRun, synced, decision>>
  /\ UNCHANGED <<schedVars, retryVars, hashVars, linkVars, configVars>>

\* between two runs the user edits remote or ref of the skill in the
\* configuration file; the next run loads it
configEdit(c) ==
  /\ spc = "idle"
  /\ runNo >= 1
  /\ runNo < MaxRuns
  /\ edits < MaxEdits
  /\ edits' = edits + 1
  /\ c # scfg
  /\ c.agents = scfg.agents
  /\ c.type = scfg.type
  /\ c.name = scfg.name
  /\ scfg' = c
  /\ UNCHANGED <<remoteTree, dryRun, force, spc, content, tempDir, fetchErr, fref,
                 pendingHash, links, runNo, lastResult, fetchedInRun, synced, decision,
                 intact, ops, failures>>
  /\ UNCHANGED <<schedVars, retryVars, hashVars, linkVars, configVars>>

NextSync ==
  \/ \E d \in BOOLEAN, f \in BOOLEAN : syncStart(d, f)
  \/ \E b \in BOOLEAN : promptAnswer(b)
  \/ fetchBegin
  \/ \E ok \in BOOLEAN : fetchMkdtemp(ok)
  \/ \E ok \in BOOLEAN : fetchClone(ok)
  \/ \E ok \in BOOLEAN : fetchCheckout(ok)
  \/ \E ok \in BOOLEAN : fetchEnsureDir(ok)
  \/ \E ok \in BOOLEAN : fetchClear(ok)
  \/ \E ok \in BOOLEAN : fetchCopy(ok)
  \/ \E ok \in BOOLEAN, denied \in SUBSET {<<>>, <<"docs">>} : fetchHash(ok, denied)
  \/ \E ok \in BOOLEAN : fetchSaveMetadata(ok)
  \/ \E ok \in BOOLEAN : fetchCleanup(ok)
  \/ syncFanout
  \/ \E q \in ContentPaths \cup {P_META}, kind \in MetadataEdits : localEdit(q, kind)
  \/ \E c \in SkillConfigs : configEdit(c)

InitSync == SyncStart /\ SchedIdle /\ RetryIdle /\ HashIdle /\ LinkIdle /\ ConfigIdle

SpecSync == InitSync /\ [][NextSync]_vars

(***************************************************************************)
(* Claims about the skip decision.                                         *)
(***************************************************************************)

\* a run that is neither a dry run nor forced starts in this step
plainRunStarts ==
  /\ spc = "idle"
  /\ runNo' = runNo + 1
  /\ ~dryRun'
  /\ ~force'

\* the skill was fetched successfully and its configuration is the same
syncedSameConfig ==
  /\ synced.valid
  /\ scfg = synced.cfg
  /\ content.exists
  /\ DOMAIN content.files = DOMAIN synced.files

\* the file lies below a dot-prefixed directory
inDotDirectory(q) == \E k \in 1..(Len(q) - 1) : SubSeq(q[k], 1, 1) = "."

\* C9: idempotence: when a run (not dry, not forced) starts on a skill that
\* was fetched successfully, with the same configuration and a content
\* directory unchanged since that fetch, the run ends at once with
\* success=true, skipped=true, and no fetcher is invoked.
C9_Idempotence ==
  [][(plainRunStarts /\ syncedSameConfig /\ content.files = synced.files) =>
       /\ spc' = "idle"
       /\ lastResult'.success /\ lastResult'.skipped
       /\ decision'.shouldSkip
       /\ ~fetchedInRun'
       /\ content' = content]_vars

C9_Witness ==
  /\ runNo = 2
  /\ spc = "idle"
  /\ ~dryRun /\ ~force
  /\ synced.valid /\ content.files = synced.files
  /\ P_HIDDEN \in DOMAIN content.files
  /\ scfg.ref = ""
  /\ lastResult.success /\ lastResult.skipped
  /\ ~fetchedInRun

\* C10 (as claimed): drift detection: when a run (not dry, not forced)
\* starts on a successfully synced skill with the same configuration and the
\* bytes of some content file of the directory, at any depth and in any
\* subdirectory, differ from what the fetch left (the metadata record being
\* untouched), the skip decision is shouldSkip=false with
\* needsInteraction=true.
C10_DriftAnyFile ==
  [][(/\ plainRunStarts /\ syncedSameConfig
      /\ content.files[P_META] = synced.files[P_META]
      /\ \E q \in DOMAIN content.files :
           /\ q # P_META
           /\ content.files[q] # synced.files[q]) =>
       (~decision'.shouldSkip /\ decision'.needsInteraction)]_vars

\* C10 (amended): the same for a modified file that is not below a
\* dot-prefixed directory; the run then stops at the overwrite prompt.
C10_DriftHashedFile ==
  [][(/\ plainRunStarts /\ syncedSameConfig
      /\ content.files[P_META] = synced.files[P_META]
      /\ \E q \in DOMAIN content.files :
           /\ q # P_META /\ ~inDotDirectory(q)
           /\ content.files[q] # synced.files[q]) =>
       (/\ ~decision'.shouldSkip /\ decision'.needsInteraction
        /\ spc' = "prompt")]_vars

C10_Witness ==
  /\ spc = "prompt"
  /\ decision.needsInteraction /\ ~decision.shouldSkip
  /\ synced.valid /\ scfg = synced.cfg
  /\ P_DOC \in DOMAIN content.files
  /\ content.files[P_META] = synced.files[P_META]
  /\ content.files[P_DOC] # synced.files[P_DOC]
  /\ content.files[P_SKILL] = synced.files[P_SKILL]

(***************************************************************************)
(* Claims about the orchestration of one skill.                            *)
(***************************************************************************)

\* the operation was called in the current or last run
called(op) == \E k \in 1..Len(ops) : ops[k].op = op

\* number of calls of the operation in the current or last run
calls(op) == Cardinality({k \in 1..Len(ops) : ops[k].op = op})

\* C11: in a run that is not a dry run, a skill whose skip decision says
\* needsInteraction is handed to the fetcher only from the confirmation
\* prompt (or when forced, where no decision is taken); when the user
\* declines, the run ends with success=true, skipped=true, no fetcher was
\* invoked, and the content directory and the symlinks are unchanged.
C11_OverwriteNeedsConfirmation ==
  [][/\ (spc = "prompt" /\ spc' = "idle") =>
          /\ lastResult'.success /\ lastResult'.skipped
          /\ ~fetchedInRun' /\ ~called("fetch")'
          /\ content' = content
          /\ links' = links
     /\ (spc # "fetch" /\ spc' = "fetch" /\ ~force' /\ decision'.needsInteraction) =>
          /\ spc = "prompt"
          /\ \E k \in 1..Len(ops') : ops'[k] = did("shouldOverwrite", TRUE)]_vars

C11_Witness ==
  /\ spc = "idle"
  /\ ~dryRun /\ ~force
  /\ decision.needsInteraction
  /\ ops = <<did("shouldSkipSync", TRUE), did("promptForOverwrite", TRUE),
             did("shouldOverwrite", FALSE)>>
  /\ lastResult.success /\ lastResult.skipped
  /\ ~fetchedInRun
  /\ synced.valid /\ content.files # synced.files

\* the metadata record written by the last successful fetch
recorded == synced.files[P_META]

\* the ref a configuration entry asks for: its ref, else the ref embedded
\* in its URL, else the default
effectiveRef(cfg) ==
  IF cfg.ref # "" THEN cfg.ref
  ELSE IF parseGitUrl(cfg.remote).ref # "" THEN parseGitUrl(cfg.remote).ref
  ELSE "main"

\* C12: config change triggers refetch: when a run (not dry, not forced)
\* starts on a skill whose content directory is as the last successful fetch
\* left it, and the remote of the configuration or the ref it asks for
\* differs from the remote or ref recorded by that fetch, the skip decision
\* is shouldSkip=false and the skill goes to the fetcher.
C12_ConfigChangeRefetches ==
  [][(/\ plainRunStarts
      /\ synced.valid /\ content.exists /\ content.files = synced.files
      /\ \/ scfg.remote # recorded.remote
         \/ effectiveRef(scfg) # recorded.ref) =>
       (~decision'.shouldSkip /\ spc' = "fetch")]_vars

C12_Witness ==
  /\ spc = "fetch"
  /\ ~dryRun /\ ~force
  /\ synced.valid /\ content.files = synced.files
  /\ scfg.remote = recorded.remote
  /\ scfg.ref = "abc1234" /\ recorded.ref = "dev"
  /\ ~decision.shouldSkip
  /\ ops = <<did("shouldSkipSync", TRUE)>>

\* a run of a validly configured skill ends in this step
validRunEnds ==
  /\ spc # "idle"
  /\ spc' = "idle"
  /\ validateSkillConfig(scfg.name, scfg) = ""

\* C13: force override: a run that is not a dry run, of a validly
\* configured skill that is in the force list, goes to the fetcher at once
\* whatever the content directory and its metadata are, and when it ends
\* the fetcher has been invoked exactly once, and neither the skip
\* decision nor the confirmation prompt has been called.
C13_ForceAlwaysFetches ==
  [][/\ (spc = "idle" /\ runNo' = runNo + 1 /\ ~dryRun' /\ force'
          /\ validateSkillConfig(scfg.name, scfg) = "") =>
          (spc' = "fetch" /\ ops' = <<>>)
     /\ (validRunEnds /\ ~dryRun' /\ force') =>
          /\ calls("fetch")' = 1
          /\ fetchedInRun'
          /\ ~called("shouldSkipSync")'
          /\ ~called("promptForOverwrite")']_vars

\* a forced run on an unchanged, up to date skill has fetched it again
C13_Witness ==
  /\ spc = "idle"
  /\ runNo = 2
  /\ ~dryRun /\ force
  /\ intact
  /\ scfg = synced.cfg
  /\ calls("fetch") = 1
  /\ called("saveMetadata")
  /\ lastResult.success /\ ~lastResult.skipped

\* C14: a dry run ends at once without any I/O on the skill: no skip
\* decision, no prompt, no fetch, no symlink creation, also when the skill
\* is in the force list; content directory (with its metadata) and symlinks
\* are as before, and a validly configured skill is reported success=true.
C14_DryRunNoIO ==
  [][(spc = "idle" /\ runNo' = runNo + 1 /\ dryRun') =>
       /\ spc' = "idle"
       /\ ops' = <<>>
       /\ ~fetchedInRun'
       /\ decision' = NoDecision
       /\ content' = content
       /\ links' = links
       /\ synced' = synced
       /\ (validateSkillConfig(scfg.name, scfg) = "" =>
             (lastResult'.success /\ ~lastResult'.skipped))]_vars

\* a dry run of a forced skill whose content directory was edited locally
C14_Witness ==
  /\ spc = "idle"
  /\ runNo = 2
  /\ dryRun /\ force
  /\ ops = <<>>
  /\ ~fetchedInRun
  /\ lastResult.success
  /\ synced.valid /\ content.exists
  /\ content.files # synced.files
  /\ \E a \in AgentTypes : links[a] = "link"

(***************************************************************************)
(* Claims about the fetcher.                                               *)
(***************************************************************************)

\* a run whose fetch failed ends in this step
failedFetchEnds ==
  /\ spc # "idle"
  /\ spc' = "idle"
  /\ fetchedInRun'
  /\ ~lastResult'.success

\* C15: a fetch that fails at any step leaves the previously synced content
\* directory, metadata record included, exactly as it was when the fetch
\* started.
C15_FailedFetchKeepsContent ==
  [][(failedFetchEnds /\ intact) =>
       (content'.exists /\ content'.files = synced.files)]_vars

\* the positions inside fetchGitFolder
FetchPositions ==
  {"fetch", "f_mkdtemp", "f_clone", "f_checkout", "f_ensure", "f_clear", "f_copy",
   "f_hash", "f_save", "f_cleanup"}

\* the operations fetchGitFolder performs before its finally block
FetchSteps ==
  {"fetch", "mkdtemp", "clone", "checkout", "validateFilePath(sourcePath)",
   "ensureSkillDirectory", "clearDirectory", "validateFilePath(skillDir)",
   "copyDirectory", "calculateContentHash", "saveMetadata"}

\* one of the operations of the fetch before the removal of the staging
\* directory threw
primaryFailure(log) ==
  \E k \in 1..Len(log) : log[k].op \in FetchSteps /\ ~log[k].ok

\* C16: once the staging directory has been created, its removal has been
\* attempted exactly once when control leaves fetchGitFolder, on every path,
\* and the outcome does not depend on whether the removal succeeded: the
\* fetch returns (and the fan-out follows) exactly when no other operation
\* failed, and otherwise the run fails with the error of that operation.
C16_CleanupOnceNeverMasks ==
  [][(/\ spc \in FetchPositions
      /\ spc' \notin FetchPositions
      /\ \E k \in 1..Len(ops') : ops'[k] = did("mkdtemp", TRUE)) =>
       /\ calls("removeDirectory")' = 1
       /\ ops'[Len(ops')].op = "removeDirectory"
       /\ IF primaryFailure(ops')
            THEN /\ spc' = "idle"
                 /\ ~lastResult'.success
                 /\ fetchErr' # ""
                 /\ lastResult'.error = fetchErr'
            ELSE spc' = "fanout"]_vars

\* a fetch that failed in the copy and whose staging directory could not be
\* removed: the run reports the copy failure
C16_Witness ==
  /\ spc = "idle"
  /\ \E k \in 1..Len(ops) : ops[k] = did("copyDirectory", FALSE)
  /\ ops[Len(ops)] = did("removeDirectory", FALSE)
  /\ tempDir.exists
  /\ ~lastResult.success
  /\ lastResult.error = "Failed to fetch Git folder"

\* the operations of the fetcher on the final content directory
DestinationOps == {"ensureSkillDirectory", "clearDirectory", "copyDirectory", "saveMetadata"}

\* C17: in a fetch, every filesystem operation on the destination (creating,
\* clearing, writing the skill directory) comes after the validation that
\* the skill directory lies inside the skills root has passed.
C17_DestinationValidatedFirst ==
  \A k \in 1..Len(ops) :
    ops[k].op \in DestinationOps =>
      \E j \in 1..(k - 1) : ops[j] = did("validateFilePath(skillDir)", TRUE)

\* the metadata record was written after the staged content was copied
\* completely and its hash computed, and the fan-out came after the write
metadataWriteOrdered ==
  /\ \A k \in 1..Len(ops) :
       ops[k].op = "saveMetadata" =>
         \E i \in 1..(k - 1), j \in 1..(k - 1) :
           /\ i < j
           /\ ops[i] = did("copyDirectory", TRUE)
           /\ ops[j] = did("calculateContentHash", TRUE)
  /\ \A k \in 1..Len(ops) :
       ops[k].op = "createSymlinksForSkill" =>
         \E j \in 1..(k - 1) : ops[j] = did("saveMetadata", TRUE)

\* the metadata record of the content directory carries the hash of the
\* content directory
metadataMatchesContent ==
  /\ loadMetadata(content) # NoMetadata
  /\ loadMetadata(content).contentHash = calculateContentHash(content, {})

\* C18: in every run the metadata record is written only after the copy
\* into the content directory has completed and the hash has been computed,
\* and before the symlink fan-out starts; so between fetch and fan-out the
\* recorded contentHash is the hash of the content directory.
C18_MetadataBeforeFanout ==
  /\ metadataWriteOrdered
  /\ (spc = "fanout" => metadataMatchesContent)

\* a read error happened while the content directory was hashed
hashReadError(log) ==
  \E k \in 1..Len(log) :
    log[k] = did("readdir", FALSE) \/ log[k] = did("calculateContentHash", FALSE)

\* C19: a read error during content hashing, in the listing of a directory
\* or in the reading of a file, makes calculateContentHash throw: no digest
\* is returned, the fetch fails and no metadata record is written.
C19_HashReadErrorFailsFetch ==
  [][(spc = "f_hash" /\ hashReadError(ops') /\ ~hashReadError(ops)) =>
       /\ spc' = "f_cleanup"
       /\ fetchErr' # ""
       /\ pendingHash' = pendingHash]_vars

(***************************************************************************)
(* Claims about the metadata store.                                        *)
(***************************************************************************)

\* the metadata file of the directory holds a JSON object with non-empty
\* remote, type, lastSync and contentHash
completeRecord(dir) ==
  /\ dir.exists
  /\ P_META \in DOMAIN dir.files
  /\ {"remote", "type", "lastSync", "contentHash"} \subseteq DOMAIN dir.files[P_META]
  /\ dir.files[P_META].remote # NoRemote
  /\ dir.files[P_META].type # ""
  /\ dir.files[P_META].lastSync # ""
  /\ dir.files[P_META].contentHash # ""

recordMatchesContent(dir) ==
  loadMetadata(dir) # NoMetadata =>
    loadMetadata(dir).contentHash = calculateContentHash(dir, {})

\* a step of the program itself, not of a user editing the content
\* directory between two runs
programStep == edits' <= edits

\* C21: no step of a fetch, successful or failing, and so no interruption
\* between two steps, takes the content directory from a state where a valid
\* metadata record has the hash of the current content to a state where a
\* valid record has another hash.
C21_RecordAlwaysMatchesContent ==
  [][(programStep /\ recordMatchesContent(content)) =>
       recordMatchesContent(content')]_vars

(***************************************************************************)
(* The hasher on its own: calculateContentHash is called on a directory    *)
(* and on the directory after one change of its files.                     *)
(***************************************************************************)

\* the files a tree can hold beside the metadata record of the skill
TreePaths == {P_HIDDEN, P_HIDDEN2, P_README, P_SKILL, P_DOCMETA, P_DOC}

\* a metadata record as saveMetadata writes it
SkillMetadata(lastSync, contentHash) ==
  [remote |-> [platform |-> "github", parts |-> <<"o", "r", "skills", "x">>],
   ref |-> DEFAULT_GIT_REF, type |-> "GIT_FOLDER",
   lastSync |-> lastSync, contentHash |-> contentHash]

\* directories with some of the files, with or without a metadata record
Trees ==
  { [exists |-> TRUE,
     files |-> [q \in S |-> IF q = P_META THEN SkillMetadata("T0", "h0")
                             ELSE [bytes |-> "v1"]]] :
      S \in SUBSET ((TreePaths \ {P_HIDDEN2}) \cup {P_META}) }

\* orders in which fs.readdir can make getAllFiles meet the files: by name,
\* by name backwards, and a third order
Orders ==
  { <<P_META, P_README, P_SKILL, P_DOCMETA, P_DOC>>,
    <<P_DOC, P_DOCMETA, P_SKILL, P_README, P_META>>,
    <<P_SKILL, P_DOC, P_DOCMETA, P_META, P_README>> }

HashStart ==
  /\ treeA \in Trees
  /\ treeB = treeA
  /\ change = [op |-> "none", path |-> <<>>, to |-> <<>>]
  /\ listings = <<>>
  /\ digestsA = <<>>
  /\ digestB = ""

\* a file of the tree is created, or written with other bytes
treeWriteFile(q, file) ==
  /\ change.op = "none"
  /\ q \in DOMAIN treeA.files => file # treeA.files[q]
  /\ treeB' = [treeA EXCEPT !.files =
       [r \in DOMAIN treeA.files \cup {q} |-> IF r = q THEN file ELSE treeA.files[r]]]
  /\ change' = [op |-> IF q \in DOMAIN treeA.files THEN "bytes" ELSE "add",
                path |-> q, to |-> <<>>]
  /\ UNCHANGED <<treeA, listings, digestsA, digestB>>
  /\ UNCHANGED <<schedVars, retryVars, syncVars, linkVars, configVars>>

\* a file of the tree is removed
treeUnlink(q) ==
  /\ change.op = "none"
  /\ q \in DOMAIN treeA.files
  /\ treeB' = keepFiles(treeA, DOMAIN treeA.files \ {q})
  /\ change' = [op |-> "remove", path |-> q, to |-> <<>>]
  /\ UNCHANGED <<treeA, listings, digestsA, digestB>>
  /\ UNCHANGED <<schedVars, retryVars, syncVars, linkVars, configVars>>

\* a file of the tree is renamed to a free path
treeRename(q, r) ==
  /\ change.op = "none"
  /\ q \in DOMAIN treeA.files
  /\ r \notin DOMAIN treeA.files
  /\ treeB' = [treeA EXCEPT !.files =
       [t \in (DOMAIN treeA.files \ {q}) \cup {r} |->
          IF t = r THEN treeA.files[q] ELSE treeA.files[t]]]
  /\ change' = [op |-> "rename", path |-> q, to |-> r]
  /\ UNCHANGED <<treeA, listings, digestsA, digestB>>
  /\ UNCHANGED <<schedVars, retryVars, syncVars, linkVars, configVars>>

\* the end of a fetch: saveMetadata with the contentHash computed just before
treeSaveMetadata ==
  /\ change.op = "none"
  /\ digestsA # <<>>
  /\ treeB' = saveMetadata(treeA, SkillMetadata("T1", digestsA[Len(digestsA)]))
  /\ change' = [op |-> "saveMetadata", path |-> P_META, to |-> <<>>]
  /\ UNCHANGED <<treeA, listings, digestsA, digestB>>
  /\ UNCHANGED <<schedVars, retryVars, syncVars, linkVars, configVars>>

\* calculateContentHash(treeA) returns
hashTreeA(order) ==
  /\ change.op # "off"
  /\ Len(digestsA) < MaxHashCalls
  /\ listings' = Append(listings, order)
  /\ digestsA' = Append(digestsA, calculateContentHashListed(treeA, {}, order))
  /\ UNCHANGED <<treeA, treeB, change, digestB>>
  /\ UNCHANGED <<schedVars, retryVars, syncVars, linkVars, configVars>>

\* calculateContentHash(treeB) returns
hashTreeB(order) ==
  /\ change.op \notin {"off", "none"}
  /\ digestB' = calculateContentHashListed(treeB, {}, order)
  /\ UNCHANGED <<treeA, treeB, change, listings, digestsA>>
  /\ UNCHANGED <<schedVars, retryVars, syncVars, linkVars, configVars>>

NextHash ==
  \/ \E q \in TreePaths, b \in Bytes : treeWriteFile(q, [bytes |-> b])
  \/ \E h \in {"h0", "h1"} : treeWriteFile(P_META, SkillMetadata("T2", h))
  \/ \E q \in TreePaths \cup {P_META} : treeUnlink(q)
  \/ \E q \in TreePaths, r \in TreePaths : treeRename(q, r)
  \/ treeSaveMetadata
  \/ \E order \in Orders : hashTreeA(order)
  \/ \E order \in Orders : hashTreeB(order)

InitHash == HashStart /\ SchedIdle /\ RetryIdle /\ SyncIdle /\ LinkIdle /\ ConfigIdle

SpecHash == InitHash /\ [][NextHash]_vars

\* both trees have been hashed
bothHashed == digestsA # <<>> /\ digestB # ""

\* treeB is treeA with the bytes of one file changed, or with one file
\* added, removed or renamed, and the file is not the metadata record
oneFileChanged ==
  /\ change.op \in {"bytes", "add", "remove", "rename"}
  /\ change.path # P_META

\* the change touches a path outside the dot-prefixed directories
changeOutsideDotDirectories ==
  \/ ~inDotDirectory(change.path)
  \/ change.op = "rename" /\ ~inDotDirectory(change.to)

metadataRecordChanged ==
  /\ change.op \in {"bytes", "add", "remove", "saveMetadata"}
  /\ change.path = P_META

homedir == "/home/u"

\* the default of config.skillsPath
DEFAULT_SKILLS_PATH == "~/.agents/skills"

\* resolveHomePath(filepath): a leading ~ becomes the home directory
resolveHomePath(filepath) ==
  IF filepath = "~" \/ (Len(filepath) >= 2 /\ SubSeq(filepath, 1, 2) = "~/")
    THEN homedir \o SubSeq(filepath, 2, Len(filepath))
    ELSE filepath

\* the skill names of the configuration files
ConfigNames == {SKILL_NAME, "y"}

\* two skill configurations that pass every check, and one without a type
CFG_MAIN ==
  [remote |-> [platform |-> "github", parts |-> <<"o", "r", "skills", "x">>],
   ref |-> "", type |-> "GIT_FOLDER", agents |-> {}]

CFG_PINNED == [CFG_MAIN EXCEPT !.ref = "abc1234"]

CFG_UNTYPED == [CFG_MAIN EXCEPT !.type = ""]

\* { [skillName]: skillConfig }
skillEntry(skillName, skillConfig) == [name |-> skillName, cfg |-> skillConfig]

\* SkillConfigSchema: the type is one of the literals, the remote is a
\* non-empty string, the agents are agent types
SkillConfigSchema(cfg) ==
  /\ cfg.type \in VALID_SKILL_TYPES
  /\ cfg.remote # NoRemote
  /\ cfg.agents \subseteq AgentTypes

\* ConfigSchema.safeParse(rawConfig): "" on success, else the joined issues
ConfigSchema(rawConfig) ==
  IF ~rawConfig.hasSkills THEN "skills: Required"
  ELSE IF Len(rawConfig.skills) < 1 THEN "skills: Config must have at least one skill"
  ELSE IF \E i \in DOMAIN rawConfig.skills : ~SkillConfigSchema(rawConfig.skills[i].cfg)
    THEN "skills: Invalid input"
  ELSE ""

\* a rejection of loadConfig with this message
configRejected(message) == [thrown |-> message, config |-> NoConfigFile]

\* loadConfig(configPath): the file must exist, pass the schema, have a
\* non-empty skills array and valid skills; skillsPath is defaulted and its
\* ~ resolved in the configuration returned
loadConfig(file) ==
  LET schemaError == ConfigSchema(file)
      skillsPath == IF file.skillsPath = "" THEN DEFAULT_SKILLS_PATH ELSE file.skillsPath
      config == [file EXCEPT !.skillsPath = resolveHomePath(skillsPath)]
      invalid == {i \in DOMAIN file.skills : validateSkillConfig(file.skills[i].name, file.skills[i].cfg) # ""}
  IN IF ~file.exists THEN configRejected("Config file not found")
     ELSE IF schemaError # ""
       THEN configRejected("Invalid config structure: " \o schemaError)
     ELSE IF ~file.hasSkills THEN configRejected("Config must include \"skills\" array")
     ELSE IF Len(file.skills) = 0 THEN configRejected("Config skills array must not be empty")
     ELSE IF invalid # {}
       THEN LET first == file.skills[CHOOSE i \in invalid : \A j \in invalid : i <= j]
            IN configRejected(validateSkillConfig(first.name, first.cfg))
     ELSE [thrown |-> "", config |-> config]

\* skills.findIndex(s => Object.keys(s)[0] === skillName)
findSkillIndex(skills, skillName) ==
  LET found == {i \in DOMAIN skills : skills[i].name = skillName} IN
    IF found = {} THEN -1 ELSE CHOOSE i \in found : \A j \in found : i <= j

\* skills.filter(s => Object.keys(s)[0] !== skillName)
filterSkills(skills, skillName) ==
  LET keep(s) == s.name # skillName IN SelectSeq(skills, keep)

\* addSkillToConfig(configPath, skillName, skillConfig): reads the file
\* without validation, replaces the entry of the name or appends one, and
\* writes the file
addSkillToConfig(file, skillName, skillConfig, writeOk) ==
  LET skills == IF file.hasSkills THEN file.skills ELSE <<>>
      existingSkillIndex == findSkillIndex(skills, skillName)
      entry == skillEntry(skillName, skillConfig)
      written == IF existingSkillIndex >= 0
                   THEN [skills EXCEPT ![existingSkillIndex] = entry]
                   ELSE Append(skills, entry)
  IN IF ~file.exists THEN [thrown |-> "Config file not found", file |-> file]
     ELSE IF ~writeOk
       THEN [thrown |-> "Failed to add skill to config: EACCES", file |-> file]
     ELSE [thrown |-> "",
           file |-> [file EXCEPT !.hasSkills = TRUE, !.skills = written]]

\* removeSkillFromConfig(configPath, skillName): loads the configuration,
\* filters the entries of the name out, and writes the loaded configuration
removeSkillFromConfig(file, skillName, writeOk) ==
  LET loaded == loadConfig(file)
      config == loaded.config
      kept == filterSkills(config.skills, skillName)
  IN IF loaded.thrown # "" THEN [thrown |-> loaded.thrown, file |-> file]
     ELSE IF Len(kept) = Len(config.skills)
       THEN [thrown |-> "Skill not found in config", file |-> file]
     ELSE IF ~writeOk
       THEN [thrown |-> "Failed to remove skill from config: EACCES", file |-> file]
     ELSE [thrown |-> "", file |-> [config EXCEPT !.skills = kept]]

\* updateSkillInConfig(configPath, skillName, skillConfig): loads the
\* configuration, replaces the entry of the name, and writes the loaded
\* configuration
updateSkillInConfig(file, skillName, skillConfig, writeOk) ==
  LET loaded == loadConfig(file)
      config == loaded.config
      skillIndex == findSkillIndex(config.skills, skillName)
  IN IF loaded.thrown # "" THEN [thrown |-> loaded.thrown, file |-> file]
     ELSE IF skillIndex = -1
       THEN [thrown |-> "Skill not found in config", file |-> file]
     ELSE IF ~writeOk
       THEN [thrown |-> "Failed to update skill in config: EACCES", file |-> file]
     ELSE [thrown |-> "",
           file |-> [config EXCEPT !.skills[skillIndex] = skillEntry(skillName, skillConfig)]]

\* the values of skillsPath in a file: absent, with ~, absolute
SkillsPaths == {"", "~/test", "/srv/skills"}

\* the entries a file starts with
StartEntries ==
  {skillEntry(n, c) : n \in ConfigNames, c \in {CFG_MAIN, CFG_UNTYPED}}

\* the files the calls start from: missing, without a skills array, and
\* with a skills array of up to MaxStartSkills entries
ConfigFiles ==
  {NoConfigFile}
  \cup {[exists |-> TRUE, skillsPath |-> p, hasSkills |-> FALSE, skills |-> <<>>] :
          p \in SkillsPaths}
  \cup UNION {{[exists |-> TRUE, skillsPath |-> p, hasSkills |-> TRUE, skills |-> s] :
                 p \in SkillsPaths, s \in [1..n -> StartEntries]} : n \in 0..MaxStartSkills}

ConfigStart ==
  /\ configFile \in ConfigFiles
  /\ configCall = NoConfigCall
  /\ configCalls = 0
  /\ loadableAtStart = (loadConfig(configFile).thrown = "")

\* one call: the file after it and the record of the call
configStep(op, skillName, result) ==
  /\ configCall.op # "off"
  /\ configCalls < MaxConfigCalls
  /\ configCalls' = configCalls + 1
  /\ configFile' = result.file
  /\ configCall' = [op |-> op, name |-> skillName, before |-> configFile,
                    thrown |-> result.thrown, wrote |-> result.file # configFile]
  /\ UNCHANGED loadableAtStart
  /\ UNCHANGED <<schedVars, retryVars, syncVars, hashVars, linkVars>>

callLoadConfig ==
  configStep("loadConfig", "", [thrown |-> loadConfig(configFile).thrown, file |-> configFile])

callAddSkillToConfig(skillName, skillConfig, writeOk) ==
  configStep("addSkillToConfig", skillName,
             addSkillToConfig(configFile, skillName, skillConfig, writeOk))

callUpdateSkillInConfig(skillName, skillConfig, writeOk) ==
  configStep("updateSkillInConfig", skillName,
             updateSkillInConfig(configFile, skillName, skillConfig, writeOk))

callRemoveSkillFromConfig(skillName, writeOk) ==
  configStep("removeSkillFromConfig", skillName,
             removeSkillFromConfig(configFile, skillName, writeOk))

NextConfig ==
  \/ callLoadConfig
  \/ \E n \in ConfigNames, c \in {CFG_MAIN, CFG_PINNED}, w \in BOOLEAN :
       callAddSkillToConfig(n, c, w)
  \/ \E n \in ConfigNames, c \in {CFG_MAIN, CFG_PINNED}, w \in BOOLEAN :
       callUpdateSkillInConfig(n, c, w)
  \/ \E n \in ConfigNames, w \in BOOLEAN : callRemoveSkillFromConfig(n, w)

InitConfig == ConfigStart /\ SchedIdle /\ RetryIdle /\ SyncIdle /\ HashIdle /\ LinkIdle

SpecConfig == InitConfig /\ [][NextConfig]_vars

(***************************************************************************)
(* The link and unlink operations on their own: createSymlink,             *)
(* createSymlinksForSkill, removeSymlinksForSkill and the remove command   *)
(* are called on a filesystem with entries of every kind.                  *)
(***************************************************************************)

\* resolved paths outside every agent directory
OutsidePaths ==
  { HOME \o <<".ssh", SKILL_NAME>>, HOME \o <<".cursor", "skills-evil", SKILL_NAME>> }

\* the target arguments of the direct calls of createSymlink
TargetInputs ==
  { symlinkPath("cursor"),
    symlinkPath("codex"),
    getAgentGlobalPath("cursor") \o <<"sub", "..", SKILL_NAME>>,
    HOME \o <<".ssh", SKILL_NAME>>,
    getAgentGlobalPath("cursor") \o <<"..", "..", ".ssh", SKILL_NAME>>,
    HOME \o <<".cursor", "skills-evil", SKILL_NAME>> }

\* the agents argument of the calls: absent, or some agents
AgentInputs == {{}, {"cursor", "codex"}, {"codex"}}

\* the filesystem before the first call
LinkStart ==
  /\ skillDirExists \in BOOLEAN
  /\ \E e1 \in LinkStates, e2 \in LinkStates :
       agentEntries = [a \in AgentTypes |-> IF a = "cursor" THEN e1
                                             ELSE IF a = "codex" THEN e2 ELSE "none"]
  /\ \E e \in {"none", "other"} : strayEntries = [q \in OutsidePaths |-> e]
  /\ ensuredDirs = {}
  /\ lastCall = NoCall
  /\ linkCalls = 0

\* path.dirname(target) on the resolved path
dirname(q) == SubSeq(q, 1, Len(q) - 1)

\* the entry at the path the target resolves to
entryAt(target) ==
  LET q == pathResolve(target) IN
    IF q \in OutsidePaths THEN strayEntries[q]
    ELSE agentEntries[CHOOSE a \in AgentTypes : symlinkPath(a) = q]

\* a call of createSymlink(source, target, skillName)
callCreateSymlink(target, failAt) ==
  /\ linkCalls < MaxLinkCalls
  /\ lastCall.op # "off"
  /\ linkCalls' = linkCalls + 1
  /\ LET q == pathResolve(target)
         r == createSymlink(skillDirExists, isValidTarget(target), entryAt(target), failAt)
     IN /\ IF q \in OutsidePaths
               THEN /\ strayEntries' = [strayEntries EXCEPT ![q] = r.entry]
                    /\ UNCHANGED agentEntries
               ELSE /\ agentEntries' =
                         [a \in AgentTypes |-> IF symlinkPath(a) = q THEN r.entry
                                                ELSE agentEntries[a]]
                    /\ UNCHANGED strayEntries
        /\ ensuredDirs' = IF r.ensured THEN ensuredDirs \cup {dirname(q)} ELSE ensuredDirs
        /\ lastCall' = [op |-> "createSymlink", agents |-> {}, target |-> target,
                        faulty |-> failAt # "none", thrown |-> r.thrown]
  /\ UNCHANGED skillDirExists
  /\ UNCHANGED <<schedVars, retryVars, syncVars, hashVars, configVars>>

\* a call of createSymlinksForSkill(skillName, skillSourcePath, agents)
callCreateSymlinksForSkill(agents, failAt) ==
  /\ linkCalls < MaxLinkCalls
  /\ lastCall.op # "off"
  /\ linkCalls' = linkCalls + 1
  /\ {a \in AgentTypes : failAt[a] # "none"} \subseteq knownAgents(agents)
  /\ LET r == createSymlinksForSkill(skillDirExists, agentEntries, agents, failAt) IN
       /\ agentEntries' = r.entries
       /\ ensuredDirs' = ensuredDirs \cup
            { getAgentGlobalPath(a) : a \in
                {b \in knownAgents(agents) :
                   createSymlink(skillDirExists, isValidTarget(symlinkPath(b)),
                                 agentEntries[b], failAt[b]).ensured} }
       /\ lastCall' = [op |-> "createSymlinksForSkill", agents |-> agents, target |-> <<>>,
                       faulty |-> failAt # [a \in AgentTypes |-> "none"],
                       thrown |-> r.thrown]
  /\ UNCHANGED <<skillDirExists, strayEntries>>
  /\ UNCHANGED <<schedVars, retryVars, syncVars, hashVars, configVars>>

\* a call of removeSymlinksForSkill(skillName, agents)
callRemoveSymlinksForSkill(agents, failAt) ==
  /\ linkCalls < MaxLinkCalls
  /\ lastCall.op # "off"
  /\ linkCalls' = linkCalls + 1
  /\ {a \in AgentTypes : failAt[a] # "none"} \subseteq knownAgents(agents)
  /\ agentEntries' = removeSymlinksForSkill(skillDirExists, agentEntries, agents, failAt)
  /\ lastCall' = [op |-> "removeSymlinksForSkill", agents |-> agents, target |-> <<>>,
                  faulty |-> failAt # [a \in AgentTypes |-> "none"], thrown |-> FALSE]
  /\ UNCHANGED <<skillDirExists, strayEntries, ensuredDirs>>
  /\ UNCHANGED <<schedVars, retryVars, syncVars, hashVars, configVars>>

\* the configuration file of the remove command: it lists the skill and
\* one more
ConfigLinked ==
  /\ configFile = [exists |-> TRUE, skillsPath |-> DEFAULT_SKILLS_PATH, hasSkills |-> TRUE,
                    skills |-> <<skillEntry(SKILL_NAME, CFG_MAIN), skillEntry("y", CFG_MAIN)>>]
  /\ configCall = NoConfigCall
  /\ configCalls = 0
  /\ loadableAtStart = TRUE

\* removeCommand(skillName), with a configuration file that exists:
\* fs.remove(skillDir) when the directory exists, then
\* removeSymlinksForSkill(skillName), then removeSkillFromConfig(configPath,
\* skillName); the first step that throws ends the command
removeCommand(ok, failAt, writeOk) ==
  LET removed == removeSkillFromConfig(configFile, SKILL_NAME, writeOk) IN
  /\ linkCalls < MaxLinkCalls
  /\ lastCall.op # "off"
  /\ configFile.exists
  /\ linkCalls' = linkCalls + 1
  /\ ok \/ skillDirExists
  /\ IF ok
       THEN /\ skillDirExists' = FALSE
            /\ agentEntries' = removeSymlinksForSkill(FALSE, agentEntries, {}, failAt)
            /\ configFile' = removed.file
            /\ configCall' = [op |-> "removeSkillFromConfig", name |-> SKILL_NAME,
                              before |-> configFile, thrown |-> removed.thrown,
                              wrote |-> removed.file # configFile]
            /\ lastCall' = [op |-> "removeCommand", agents |-> {}, target |-> <<>>,
                            faulty |-> failAt # [a \in AgentTypes |-> "none"],
                            thrown |-> removed.thrown # ""]
       ELSE /\ failAt = [a \in AgentTypes |-> "none"]
            /\ writeOk
            /\ lastCall' = [op |-> "removeCommand", agents |-> {}, target |-> <<>>,
                            faulty |-> FALSE, thrown |-> TRUE]
            /\ UNCHANGED <<skillDirExists, agentEntries, configFile, configCall>>
  /\ UNCHANGED <<strayEntries, ensuredDirs, configCalls, loadableAtStart>>
  /\ UNCHANGED <<schedVars, retryVars, syncVars, hashVars>>

NextLink ==
  \/ \E target \in TargetInputs, failAt \in FailSteps : callCreateSymlink(target, failAt)
  \/ \E agents \in AgentInputs, failAt \in FailAts : callCreateSymlinksForSkill(agents, failAt)
  \/ \E agents \in AgentInputs, failAt \in FailAts : callRemoveSymlinksForSkill(agents, failAt)
  \/ \E ok \in BOOLEAN, failAt \in FailAts, writeOk \in BOOLEAN :
       removeCommand(ok, failAt, writeOk)

InitLink == LinkStart /\ SchedIdle /\ RetryIdle /\ SyncIdle /\ HashIdle /\ ConfigLinked

SpecLink == InitLink /\ [][NextLink]_vars

(***************************************************************************)
(* Claims about the symlink fan-out.                                       *)
(***************************************************************************)

\* this step is a call of the operation
callOf(op) == linkCalls' = linkCalls + 1 /\ lastCall'.op = op

\* the agents a call with this agents argument targets
targeted(agents) == IF agents # {} THEN agents ELSE AgentTypes

\* the entry a consumer has after a link of it alone in which no filesystem
\* call fails
linkedAlone(a) ==
  createSymlink(skillDirExists, TRUE, agentEntries[a], "none").entry

\* C25: a call of createSymlinksForSkill in which the linking of some
\* consumers fails does not reject; the consumers that are not targeted keep
\* their entry, and every targeted consumer but the failing ones (at most
\* MaxLinkFailures) ends with the entry a link of it alone would have made.
C25_FanoutIndependence ==
  [][callOf("createSymlinksForSkill") =>
       /\ ~lastCall'.thrown
       /\ \A a \in AgentTypes \ targeted(lastCall'.agents) :
            agentEntries'[a] = agentEntries[a]
       /\ Cardinality({a \in targeted(lastCall'.agents) :
                         agentEntries'[a] # linkedAlone(a)}) <= MaxLinkFailures]_vars

\* a fan-out to cursor and codex in which a filesystem call failed for
\* cursor after its old symlink was removed, while codex was linked
C25_Witness ==
  /\ lastCall.op = "createSymlinksForSkill"
  /\ lastCall.agents = {"cursor", "codex"}
  /\ lastCall.faulty
  /\ ~lastCall.thrown
  /\ linkCalls = 1
  /\ skillDirExists
  /\ agentEntries["cursor"] = "none"
  /\ agentEntries["codex"] = "link"

\* C26: a run that reaches the fan-out, that is whose fetch succeeded, ends
\* with success=true, whether every consumer was linked, the linking of a
\* consumer failed, or createSymlinksForSkill rejected.
C26_FanoutNeverFailsSkill ==
  [][(spc = "fanout" /\ spc' = "idle") =>
       (lastResult'.success /\ lastResult'.error = "")]_vars

\* a run has ended successful although createSymlinksForSkill rejected
C26_Witness ==
  /\ spc = "idle"
  /\ fetchedInRun
  /\ lastResult # NoResult
  /\ lastResult.success
  /\ \E k \in 1..Len(ops) : ops[k] = did("createSymlinksForSkill", FALSE)

\* the real files and directories at the consumer targets stay
realEntriesKept ==
  \A a \in AgentTypes : agentEntries[a] = "real" => agentEntries'[a] = "real"

\* this step is a call of createSymlink on a target occupied by a real entry
linkOnRealEntry ==
  /\ callOf("createSymlink")
  /\ pathResolve(lastCall'.target) \notin OutsidePaths
  /\ entryAt(lastCall'.target) = "real"

C28_SymlinkTargetsRelinked ==
  [][(callOf("createSymlinksForSkill") /\ skillDirExists /\ ~lastCall'.faulty) =>
       \A a \in targeted(lastCall'.agents) :
         agentEntries[a] \in {"none", "link", "other", "dangling"} =>
           agentEntries'[a] = "link"]_vars

\* the target resolves to a consumer root or below one
insideConsumerRoot(target) ==
  \E a \in AgentTypes :
    LET root == getAgentGlobalPath(a)
        q == pathResolve(target)
    IN Len(q) >= Len(root) /\ SubSeq(q, 1, Len(root)) = root

\* C29: createSymlink with a target that does not resolve inside a consumer
\* root, or with a content directory that does not exist, throws and leaves
\* every entry and every directory as it was.
C29_InvalidLinkChangesNothing ==
  [][(/\ callOf("createSymlink")
      /\ ~insideConsumerRoot(lastCall'.target) \/ ~skillDirExists) =>
       /\ lastCall'.thrown
       /\ agentEntries' = agentEntries
       /\ strayEntries' = strayEntries
       /\ ensuredDirs' = ensuredDirs]_vars

\* createSymlink was called for an existing content directory with a target
\* that leaves the directory of cursor through "..", and has thrown
C29_Witness ==
  /\ lastCall.op = "createSymlink"
  /\ lastCall.target = getAgentGlobalPath("cursor") \o <<"..", "..", ".ssh", SKILL_NAME>>
  /\ lastCall.thrown
  /\ ~lastCall.faulty
  /\ skillDirExists
  /\ linkCalls = 1

\* C30: removeSymlinksForSkill never throws; when no filesystem call fails
\* it leaves no targeted consumer with a symlink named after the skill, and
\* a second call right after the first changes nothing.
C30_UnlinkIdempotentTotal ==
  [][callOf("removeSymlinksForSkill") =>
       /\ ~lastCall'.thrown
       /\ ~lastCall'.faulty =>
            \A a \in targeted(lastCall'.agents) :
              agentEntries'[a] \notin {"link", "other", "dangling"}
       /\ (/\ lastCall.op = "removeSymlinksForSkill"
           /\ lastCall.agents = lastCall'.agents
           /\ ~lastCall.faulty
           /\ ~lastCall'.faulty) => agentEntries' = agentEntries]_vars

(***************************************************************************)
(* Claims about the remove command.                                        *)
(***************************************************************************)

\* the skill is synced and linked: its content directory exists and some
\* consumer directory has a symlink to it
syncedAndLinked ==
  skillDirExists /\ \E a \in AgentTypes : agentEntries[a] = "link"

\* C31: a removeCommand that completes without an error, no filesystem call
\* failing, for a skill that was synced and linked leaves no content
\* directory, no entry of the skill in the configuration file, and no
\* symlink of the skill in any consumer directory
C31_RemoveLeavesNothing ==
  [][(callOf("removeCommand") /\ syncedAndLinked
        /\ ~lastCall'.thrown /\ ~lastCall'.faulty)
       => /\ ~skillDirExists'
          /\ findSkillIndex(configFile'.skills, SKILL_NAME) = -1
          /\ \A a \in AgentTypes : agentEntries[a] = "link" => agentEntries'[a] = "none"]_vars

(***************************************************************************)
(* Claims about malformed skill entries.                                   *)
(***************************************************************************)

\* the entry of the skill is malformed: its name is not a safe identifier,
\* or its configuration has no valid type or no remote
malformed(cfg) ==
  \/ Len(cfg.name) = 0 \/ includes(cfg.name, "/") \/ includes(cfg.name, "..")
  \/ cfg.type \notin VALID_SKILL_TYPES
  \/ cfg.remote = NoRemote

C33_ExitStatusTellsFailure ==
  exitCode # NotExited => (exitCode # 0 <=> fetchThrows # {})

(***************************************************************************)
(* Claims about the configuration file.                                    *)
(***************************************************************************)

\* this step is a call of the operation on the configuration file
configCallOf(op) == configCalls' = configCalls + 1 /\ configCall'.op = op

\* C34: loadConfig on a configuration file without a skills array rejects
\* with an error whose message contains: must include "skills" array
C34_NoSkillsArrayMessage ==
  [][(configCallOf("loadConfig") /\ configFile.exists /\ ~configFile.hasSkills)
       => includes(configCall'.thrown, "must include \"skills\" array")]_vars

(***************************************************************************)
(* Claims about the order of staging and clearing in a fetch.              *)
(***************************************************************************)

\* this step is the call of clearDirectory on the content directory
clearingStep == spc = "f_clear" /\ Len(ops') = Len(ops) + 1

\* the clone of this fetch succeeded and the folder to copy is in it
stagingSucceeded ==
  /\ \E k \in 1..Len(ops) : ops[k].op = "clone" /\ ops[k].ok
  /\ tempDir.exists
  /\ remoteTree.exists

\* C35: the content directory is cleared only after the clone (and checkout)
\* succeeded and the folder to copy exists in the staging directory, and a
\* fetch that fails after staging leaves a content directory that was fully
\* written before the fetch neither empty nor partially copied
C35_ClearOnlyAfterStaging ==
  [][/\ clearingStep => stagingSucceeded
     /\ (failedFetchEnds /\ intact /\ stagingSucceeded)
          => (content'.exists /\ content'.files = synced.files)]_vars

(***************************************************************************)
(* Claims about the settling of the retry wrappers.                        *)
(***************************************************************************)

\* C36: a call of withRetryAndTimeout settles, whether or not the
\* invocations of the operation ever settle, and it makes at most maxRetries
\* invocations
C36_RetryWithTimeoutSettles ==
  /\ (rcfg.timeoutMs > 0) ~> settled
  /\ [](rcfg.timeoutMs > 0 => invocations <= rcfg.maxRetries)

\* the call has rejected after every one of three invocations timed out, none
\* of them having settled
C36_Witness ==
  /\ rcfg.timeoutMs > 0
  /\ rcfg.maxRetries = 3
  /\ rpc = "rejected"
  /\ Len(raised) = 3
  /\ \A k \in 1..3 : raised[k].class = "timeout"
  /\ pendingOps = {1, 2, 3}

(***************************************************************************)
(* Claims about the runs that leave the symlinks alone.                    *)
(***************************************************************************)

\* the fetch of the current run has completed without a failing step
fetchCompleted ==
  /\ fetchedInRun
  /\ ~primaryFailure(ops)
  /\ \E k \in 1..Len(ops) : ops[k].op = "saveMetadata" /\ ops[k].ok

\* C37: a step changes the links of the skill, or calls
\* createSymlinksForSkill, only after the fetch of the same run completed
\* successfully; a run that ends skipped, failed or as a dry run has made no
\* symlink call
C37_LinksOnlyAfterFetch ==
  /\ [][(links' # links \/ calls("createSymlinksForSkill")' > calls("createSymlinksForSkill"))
          => (runNo' = runNo /\ fetchCompleted)]_vars
  /\ [](spc = "idle" /\ runNo > 0 /\ (dryRun \/ lastResult.skipped \/ ~lastResult.success)
          => ~called("createSymlinksForSkill"))

\* the second run failed in its fetch, after the first run had linked the
\* skill, and made no symlink call
C37_Witness ==
  /\ runNo = 2
  /\ spc = "idle"
  /\ fetchedInRun
  /\ ~lastResult.success
  /\ \E a \in AgentTypes : links[a] = "link"
  /\ ~called("createSymlinksForSkill")

\* C38: a call of withRetry that has settled has invoked the operation at
\* least once, and when it rejected, the error is one that an invocation of
\* the operation raised
C38_InvokedAtLeastOnce ==
  (rcfg.timeoutMs = 0 /\ settled) =>
    /\ invocations >= 1
    /\ rpc = "rejected" => \E k \in 1..Len(raised) : raised[k] = rejectedWith

\* C39: in a call of withRetryAndTimeout at most one invocation of the
\* wrapped operation is unsettled at any time
C39_OneInvocationInFlight ==
  rcfg.timeoutMs > 0 => Cardinality(pendingOps) <= 1

\* C40: starting from a file loadConfig accepts, the file is accepted by
\* loadConfig after every addSkillToConfig, updateSkillInConfig and
\* removeSkillFromConfig (a call that throws writes nothing), and a
\* successful removeSkillFromConfig changes nothing in the file but the
\* entries of the named skill, which it deletes
C40_ConfigStaysLoadable ==
  /\ [](loadableAtStart => loadConfig(configFile).thrown = "")
  /\ [][(configCallOf("removeSkillFromConfig") /\ configCall'.thrown = "")
          => configFile' = [configFile EXCEPT
                              !.skills = filterSkills(configFile.skills, configCall'.name)]]_vars

====
